---- MODULE Spec2Model ----
(***************************************************************************)
(* sysbak: package catalog and reconciliation (src/sysbak/src).            *)
(*                                                                         *)
(* The package menu (pkg_get.rs package_menu) dispatches to                *)
(*   1  detect_package_managers   (pkg_mgmt.rs)                            *)
(*   2  list_all_packages         (pkg_get.rs)                             *)
(*   3  list_all_packages + save_package_list                              *)
(*   4  install_packages          (pkg_mgmt.rs), the Reconciler            *)
(* Every external command (probe, list, existence check, install) is a     *)
(* blocking spawn-and-wait; its outcome is "spawn_err" (the binary could   *)
(* not be started), "nonzero" (ran, exit status not success) or "ok".      *)
(*                                                                         *)
(* JSON values are records tagged by t: "object" (entries: a sequence of   *)
(* [key, val] in the iteration order of the map), "array" (a: a sequence   *)
(* of values), "string" (s), "number", "bool" (b), "null".  A file is      *)
(* [t |-> "nofile"], [t |-> "unreadable"] (it exists and cannot be read    *)
(* as UTF-8 text), [t |-> "invalid"] (text that is not JSON) or a JSON     *)
(* value.                                                                  *)
(*                                                                         *)
(* The repository has no Cargo.toml, so the build of serde_json is not     *)
(* fixed: without the feature preserve_order a Map keeps its keys sorted   *)
(* (BTreeMap), with it a Map keeps them in insertion order (IndexMap).     *)
(* preserve_order is chosen in the initial state and never changes.        *)
(***************************************************************************)
EXTENDS Naturals, Sequences, FiniteSets, TLC

VARIABLES
    file,                  \* SysBackup/package_list.json
    probe,                 \* environment: outcome of "<probe command> --version" per manager
    missingCheck,          \* environment: <<manager, package>> pairs whose existence check cannot be spawned
    preserve_order,        \* build: serde_json is built with the feature preserve_order
    installed,             \* environment: <<manager, package>> pairs present on the host
    envChanged,            \* the environment was changed from outside since the last Reconciler run started
    pc,                    \* "menu", the Reconciler's position ("detecting", "checking", "installing",
                           \* "reporting"), "main" (the main menu), "exited" or "panicked"
    op,                    \* the step taken last: a menu operation ("detect", "list", "save", "install"),
                           \* another choice or a failed read of a menu, or "none"
    result,                \* how that step ended: "none", "ok", "not_found", or the io::Error it reported
    package_list_map,      \* install_packages: the loaded catalog (sequence of entries)
    detected_managers_map, \* the AvailabilityMap of the last detection
    ki,                    \* install_packages: index of the current entry of package_list_map
    pi,                    \* install_packages: index of the current element of that entry's array
    already_installed,     \* install_packages: report sequences (formatted strings)
    newly_installed,
    failed_to_install,
    log,                   \* commands spawned by the current Reconciler run, in order
    runs,                  \* number of Reconciler runs started
    prevNewly,             \* newly_installed of the previous Reconciler run
    changedBetween,        \* the environment was changed between the start of the previous run and this one
    output,                \* result of the last list_all_packages
    listed,                \* managers whose Lister was invoked by the last list_all_packages
    listOuts,              \* per such manager: was its list command spawned, and how many names it listed
    call,                  \* a single function applied to chosen arguments: the arguments
    ret                    \* what that function returned

vars == <<file, probe, missingCheck, preserve_order, installed, envChanged, pc, op, result,
          package_list_map, detected_managers_map, ki, pi,
          already_installed, newly_installed, failed_to_install,
          log, runs, prevNewly, changedBetween, output, listed, listOuts, call, ret>>

envVars == <<probe, missingCheck, preserve_order, installed, envChanged>>
runVars == <<package_list_map, detected_managers_map, ki, pi,
             already_installed, newly_installed, failed_to_install, log, runs, prevNewly, changedBetween>>
listVars == <<output, listed, listOuts>>
callVars == <<call, ret>>

(***************************************************************************)
(* Bounds of the model.                                                    *)
(***************************************************************************)
\* size of a catalog document: its number of keys plus its number of array elements
MaxSize == 4
\* at most MaxRuns Reconciler runs in a behaviour
MaxRuns == 2
\* at most MaxListed names in the listing of one manager
MaxListed == 1

(***************************************************************************)
(* The manager registry.                                                   *)
(***************************************************************************)
\* pkg_mgmt.rs:14-22, (name, probe command)
managers ==
    << <<"apt", "apt">>, <<"yum_dnf", "dnf">>, <<"portage", "emerge">>,
       <<"pacman", "pacman">>, <<"flatpak", "flatpak">>, <<"snap", "snap">>,
       <<"xbps", "xbps-query">> >>

ManagerIds == {managers[i][1] : i \in 1..Len(managers)}

\* the managers that may be present on the host
ActiveManagers == {"apt", "flatpak"}

\* a key of a catalog document that is no ManagerId
UnknownKey == "brew"

PackageNames == {"curl", "vim"}

Outcomes == {"spawn_err", "nonzero", "ok"}

(***************************************************************************)
(* JSON values.                                                            *)
(***************************************************************************)
JStr(s) == [t |-> "string", s |-> s]
\* serde_json::Number, N::PosInt(u64), N::NegInt(i64) or N::Float(f64): digits
\* are the decimal digits of the magnitude, the first one not "0" unless the
\* number is zero; the magnitude of a Float is digits * 10^exp, with no "0" at
\* the end of digits
JNumber(kind, neg, digits, exp) ==
    [t |-> "number", kind |-> kind, neg |-> neg, digits |-> digits, exp |-> exp]
\* the number 0
JNum == JNumber("PosInt", FALSE, <<"0">>, 0)
JArr(a) == [t |-> "array", a |-> a]
JObj(entries) == [t |-> "object", entries |-> entries]
Entry(k, v) == [key |-> k, val |-> v]

JBool(b) == [t |-> "bool", b |-> b]
JNull == [t |-> "null"]

NoFile == [t |-> "nofile"]
\* the path exists (pkg_get.rs:52) and fs::read_to_string fails on it
\* (pkg_mgmt.rs:90-91): a directory, or bytes that are no UTF-8
Unreadable == [t |-> "unreadable"]
InvalidText == [t |-> "invalid"]

Range(s) == {s[i] : i \in DOMAIN s}

SeqsUpTo(S, n) == UNION {[1..k -> S] : k \in 0..n}

\* "{} ({})" of pkg_mgmt.rs:120,125,127
Format(package_name, manager_name) == package_name \o " (" \o manager_name \o ")"

(***************************************************************************)
(* serde_json::Map.                                                        *)
(***************************************************************************)
\* the keys of the documents of this model in the order of their bytes, which
\* is the order of String in a BTreeMap
KeyOrder ==
    <<"a", "apt", "b", "brew", "c", "flatpak", "message", "pacman", "portage",
      "snap", "xbps", "yum_dnf">>

\* the place of each key in KeyOrder
KeyRanks ==
    [k \in {KeyOrder[i] : i \in DOMAIN KeyOrder} |-> CHOOSE i \in DOMAIN KeyOrder : KeyOrder[i] = k]

KeyRank(k) == KeyRanks[k]

KeyLess(a, b) == KeyRank(a) < KeyRank(b)

\* Map::insert: an existing key keeps its place and takes the new value; a new
\* key goes to the end with preserve_order and to its sorted place without.
\* before is the number of keys of the map that are less than the new key.
MapInsertAt(map, e, before) ==
    IF \E i \in DOMAIN map : map[i].key = e.key
    THEN [i \in DOMAIN map |-> IF map[i].key = e.key THEN e ELSE map[i]]
    ELSE IF preserve_order THEN Append(map, e)
    ELSE SubSeq(map, 1, before) \o <<e>> \o SubSeq(map, before + 1, Len(map))

MapInsert(map, e) ==
    MapInsertAt(map, e, Cardinality({i \in DOMAIN map : KeyLess(map[i].key, e.key)}))

\* Map::extend (pkg_mgmt.rs:57): the entries are inserted one by one
RECURSIVE MapExtend(_, _)
MapExtend(map, entries) ==
    IF entries = <<>> THEN map
    ELSE MapExtend(MapInsert(map, Head(entries)), Tail(entries))

\* the Map of the members of an object in the order they are read
MapFromEntries(entries) == MapExtend(<<>>, entries)

(***************************************************************************)
(* Detector, pkg_mgmt.rs detect_package_managers.                          *)
(***************************************************************************)
\* is_present = output().is_ok(): the exit status is not looked at
DetectSpawnedOnly(pr) ==
    [name \in {managers[i][1] : i \in 1..Len(managers)} |-> pr[name] # "spawn_err"]

\* pkg_mgmt.rs:24-31: is_present = output().map_or(false, |o| o.status.success())
DetectPackageManagers(pr) ==
    [name \in ManagerIds |-> pr[name] = "ok"]

\* unwrap_or(true): a key the AvailabilityMap lacks counts as available
IsAvailableUnwrapTrue(det, manager_name) ==
    manager_name \notin DOMAIN det \/ det[manager_name]

\* only a manager the AvailabilityMap marks false is passed over
IsAvailableUnlessFalse(det, manager_name) ==
    ~(manager_name \in DOMAIN det /\ det[manager_name] = FALSE)

\* pkg_mgmt.rs:112 and pkg_get.rs:86: get(key).and_then(as_bool).unwrap_or(false)
IsAvailable(det, manager_name) ==
    manager_name \in DOMAIN det /\ det[manager_name]

(***************************************************************************)
(* Installed-Check, pkg_mgmt.rs is_package_installed.                      *)
(***************************************************************************)
\* pkg_mgmt.rs:173-193: the command line of the existence query, <<>> for an unknown manager
IsInstalledCommand(manager, package) ==
    CASE manager = "apt"     -> <<"dpkg", "-s", package>>
      [] manager = "yum_dnf" -> <<"dnf", "list", "installed", package>>
      [] manager = "pacman"  -> <<"pacman", "-Q", package>>
      [] manager = "flatpak" -> <<"flatpak", "info", package>>
      [] manager = "snap"    -> <<"snap", "list", package>>
      [] manager = "portage" -> <<"qlist", "-I", package>>
      [] manager = "xbps"    -> <<"xbps-query", "-S", package>>
      [] OTHER               -> <<>>

\* io::Result<bool>
OkBool(b) == [ok |-> TRUE, val |-> b]
ErrIo == [ok |-> FALSE, val |-> FALSE]

\* the exit status of the query is lost: every package counts as absent
IsPackageInstalledNever(manager, package, out) ==
    IF IsInstalledCommand(manager, package) = <<>>
    THEN OkBool(FALSE)
    ELSE IF out = "spawn_err"
         THEN ErrIo
         ELSE OkBool(FALSE)

\* pkg_mgmt.rs:172-197; out is the outcome of the spawned command
IsPackageInstalled(manager, package, out) ==
    IF IsInstalledCommand(manager, package) = <<>>
    THEN OkBool(FALSE)
    ELSE IF out = "spawn_err"
         THEN ErrIo
         ELSE OkBool(out = "ok")

(***************************************************************************)
(* Installer, pkg_mgmt.rs install_single_package.                          *)
(***************************************************************************)
\* flatpak is run through sudo like the other managers
InstallProgramFlatpakElevated(manager) ==
    CASE manager = "apt"     -> [command |-> "apt", sudo |-> TRUE]
      [] manager = "yum_dnf" -> [command |-> "dnf", sudo |-> TRUE]
      [] manager = "pacman"  -> [command |-> "pacman", sudo |-> TRUE]
      [] manager = "flatpak" -> [command |-> "flatpak", sudo |-> TRUE]
      [] manager = "snap"    -> [command |-> "snap", sudo |-> TRUE]
      [] manager = "portage" -> [command |-> "emerge", sudo |-> TRUE]
      [] manager = "xbps"    -> [command |-> "xbps-install", sudo |-> TRUE]
      [] OTHER               -> [command |-> "", sudo |-> FALSE]

\* pkg_mgmt.rs:202-211: (command, sudo); the command "" stands for `return false`
InstallProgram(manager) ==
    CASE manager = "apt"     -> [command |-> "apt", sudo |-> TRUE]
      [] manager = "yum_dnf" -> [command |-> "dnf", sudo |-> TRUE]
      [] manager = "pacman"  -> [command |-> "pacman", sudo |-> TRUE]
      [] manager = "flatpak" -> [command |-> "flatpak", sudo |-> FALSE]
      [] manager = "snap"    -> [command |-> "snap", sudo |-> TRUE]
      [] manager = "portage" -> [command |-> "emerge", sudo |-> TRUE]
      [] manager = "xbps"    -> [command |-> "xbps-install", sudo |-> TRUE]
      [] OTHER               -> [command |-> "", sudo |-> FALSE]

\* pkg_mgmt.rs:221-229
InstallArgs(manager, package) ==
    CASE manager \in {"apt", "yum_dnf"} -> <<"install", "-y", package>>
      [] manager = "pacman"  -> <<"-S", "--noconfirm", package>>
      [] manager = "flatpak" -> <<"install", "-y", package>>
      [] manager = "snap"    -> <<"install", package>>
      [] manager = "portage" -> <<package>>
      [] manager = "xbps"    -> <<"-S", "-y", package>>
      [] OTHER               -> <<>>

\* pkg_mgmt.rs:202-231: the command line of the install, <<>> for an unknown manager
InstallCommand(manager, package) ==
    LET program == InstallProgram(manager)
    IN  IF program.command = "" THEN <<>>
        ELSE (IF program.sudo THEN <<"sudo", program.command>> ELSE <<program.command>>)
             \o InstallArgs(manager, package)

\* status.is_ok(): a spawned install counts as a success whatever its exit status
InstallSinglePackageIgnoresStatus(manager, package, out) ==
    IF InstallCommand(manager, package) = <<>>
    THEN FALSE
    ELSE out # "spawn_err"

\* the Err arm of the match on the status returns true
InstallSinglePackageErrIsTrue(manager, package, out) ==
    IF InstallCommand(manager, package) = <<>>
    THEN FALSE
    ELSE out # "nonzero"

\* pkg_mgmt.rs:201-251; out is the outcome of the spawned command
InstallSinglePackage(manager, package, out) ==
    IF InstallCommand(manager, package) = <<>>
    THEN FALSE
    ELSE out = "ok"

(***************************************************************************)
(* The environment the commands run in.                                    *)
(***************************************************************************)
\* outcome of the existence query on this host
CheckOutcome(manager, package) ==
    IF <<manager, package>> \in missingCheck THEN "spawn_err"
    ELSE IF <<manager, package>> \in installed THEN "ok"
    ELSE "nonzero"

(***************************************************************************)
(* Reconciler, pkg_mgmt.rs install_packages.                               *)
(***************************************************************************)
\* pkg_mgmt.rs:111-117,130-137: the loops' next position at which a package is
\* checked, from position (k, p) on: entries of unavailable managers, values
\* that are no array and elements that are no string are passed over.
\* <<Len(map) + 1, 1>> when the loops are over.
RECURSIVE Seek(_, _, _, _)
Seek(map, det, k, p) ==
    IF k > Len(map) THEN <<k, 1>>
    ELSE IF ~IsAvailable(det, map[k].key) THEN Seek(map, det, k + 1, 1)
    ELSE IF map[k].val.t # "array" THEN Seek(map, det, k + 1, 1)
    ELSE IF p > Len(map[k].val.a) THEN Seek(map, det, k + 1, 1)
    ELSE IF map[k].val.a[p].t # "string" THEN Seek(map, det, k, p + 1)
    ELSE <<k, p>>

manager_name == package_list_map[ki].key
package_name == package_list_map[ki].val.a[pi].s

LogEntry(kind, argv, out) ==
    [kind |-> kind, manager |-> manager_name, package |-> package_name,
     k |-> ki, p |-> pi, argv |-> argv, out |-> out]

\* the log after a command line was run; no command is spawned for <<>>
Spawned(kind, argv, out) ==
    IF argv = <<>> THEN log ELSE Append(log, LogEntry(kind, argv, out))

\* the availability of the managers is looked up again at each step of the loops
AdvanceRedetects ==
    LET pos == Seek(package_list_map, DetectPackageManagers(probe), ki, pi + 1)
    IN  /\ ki' = pos[1]
        /\ pi' = pos[2]
        /\ pc' = IF pos[1] > Len(package_list_map) THEN "reporting" ELSE "checking"

\* the loops go on after the current element
Advance ==
    LET pos == Seek(package_list_map, detected_managers_map, ki, pi + 1)
    IN  /\ ki' = pos[1]
        /\ pi' = pos[2]
        /\ pc' = IF pos[1] > Len(package_list_map) THEN "reporting" ELSE "checking"

\* package_menu "4" (pkg_get.rs:51-59) and pkg_mgmt.rs:87-96: without a file the
\* menu only says so; otherwise install_packages reads and parses the document.
\* file.entries are the members in the order of the text; the Map that from_str
\* builds of them has the order of the build
ChooseInstall ==
    /\ pc = "menu"
    /\ op' = "install"
    /\ IF file.t = "nofile"
       THEN /\ result' = "not_found"
            /\ UNCHANGED <<pc, envChanged, runVars>>
       ELSE /\ runs < MaxRuns
            /\ runs' = runs + 1
            /\ prevNewly' = newly_installed
            /\ changedBetween' = envChanged
            /\ envChanged' = FALSE
            /\ log' = <<>>
            /\ already_installed' = <<>>
            /\ newly_installed' = <<>>
            /\ failed_to_install' = <<>>
            /\ ki' = 1
            /\ pi' = 1
            /\ UNCHANGED detected_managers_map
            /\ IF file.t = "unreadable"
               THEN /\ result' = "Failed to read package_list.json"
                    /\ UNCHANGED <<pc, package_list_map>>
               ELSE IF file.t = "invalid"
               THEN /\ result' = "Failed to parse package_list.json"
                    /\ UNCHANGED <<pc, package_list_map>>
               ELSE IF file.t # "object"
               THEN /\ result' = "package_list.json is not a valid JSON object"
                    /\ UNCHANGED <<pc, package_list_map>>
               ELSE /\ result' = "none"
                    /\ package_list_map' = MapFromEntries(file.entries)
                    /\ pc' = "detecting"
    /\ UNCHANGED <<file, probe, missingCheck, preserve_order, installed, listVars, callVars>>

\* pkg_mgmt.rs:98-108: capture the AvailabilityMap, then enter the loops
Detecting ==
    /\ pc = "detecting"
    /\ detected_managers_map' = DetectPackageManagers(probe)
    /\ LET pos == Seek(package_list_map, detected_managers_map', 1, 1)
       IN  /\ ki' = pos[1]
           /\ pi' = pos[2]
           /\ pc' = IF pos[1] > Len(package_list_map) THEN "reporting" ELSE "checking"
    /\ UNCHANGED <<file, envVars, op, result, package_list_map,
                   already_installed, newly_installed, failed_to_install,
                   log, runs, prevNewly, changedBetween, listVars, callVars>>

\* the install is run whatever the check returned
CheckingInstallsAnyway ==
    /\ pc = "checking"
    /\ LET out == CheckOutcome(manager_name, package_name)
           r == IsPackageInstalled(manager_name, package_name, out)
       IN  /\ log' = Spawned("check", IsInstalledCommand(manager_name, package_name), out)
           /\ IF ~r.ok
              THEN /\ pc' = "menu"
                   /\ result' = "spawn error"
              ELSE /\ pc' = "installing"
                   /\ UNCHANGED result
    /\ UNCHANGED <<file, envVars, op, package_list_map, detected_managers_map, ki, pi,
                   already_installed, newly_installed, failed_to_install, runs, prevNewly,
                   changedBetween, listVars, callVars>>

\* the error of the check is handed on by the package menu to its caller
CheckingErrorLeavesMenu ==
    /\ pc = "checking"
    /\ LET out == CheckOutcome(manager_name, package_name)
           r == IsPackageInstalled(manager_name, package_name, out)
       IN  /\ log' = Spawned("check", IsInstalledCommand(manager_name, package_name), out)
           /\ IF ~r.ok
              THEN /\ pc' = "main"
                   /\ result' = "spawn error"
                   /\ UNCHANGED <<ki, pi, already_installed>>
              ELSE IF r.val
              THEN /\ already_installed' = Append(already_installed, Format(package_name, manager_name))
                   /\ Advance
                   /\ UNCHANGED result
              ELSE /\ pc' = "installing"
                   /\ UNCHANGED <<ki, pi, already_installed, result>>
    /\ UNCHANGED <<file, envVars, op, package_list_map, detected_managers_map,
                   newly_installed, failed_to_install, runs, prevNewly, changedBetween, listVars, callVars>>

\* pkg_mgmt.rs:119-121: is_package_installed(manager_name, package_name)?
Checking ==
    /\ pc = "checking"
    /\ LET out == CheckOutcome(manager_name, package_name)
           r == IsPackageInstalled(manager_name, package_name, out)
       IN  /\ log' = Spawned("check", IsInstalledCommand(manager_name, package_name), out)
           /\ IF ~r.ok
              THEN /\ pc' = "menu"
                   /\ result' = "spawn error"
                   /\ UNCHANGED <<ki, pi, already_installed>>
              ELSE IF r.val
              THEN /\ already_installed' = Append(already_installed, Format(package_name, manager_name))
                   /\ Advance
                   /\ UNCHANGED result
              ELSE /\ pc' = "installing"
                   /\ UNCHANGED <<ki, pi, already_installed, result>>
    /\ UNCHANGED <<file, envVars, op, package_list_map, detected_managers_map,
                   newly_installed, failed_to_install, runs, prevNewly, changedBetween, listVars, callVars>>

\* a failing install ends the run with an error
InstallingAbortsOnFailure ==
    /\ pc = "installing"
    /\ \E out \in Outcomes :
          /\ log' = Spawned("install", InstallCommand(manager_name, package_name), out)
          /\ installed' = IF InstallCommand(manager_name, package_name) # <<>> /\ out = "ok"
                          THEN installed \cup {<<manager_name, package_name>>}
                          ELSE installed
          /\ IF InstallSinglePackage(manager_name, package_name, out)
             THEN /\ newly_installed' = Append(newly_installed, Format(package_name, manager_name))
                  /\ Advance
                  /\ UNCHANGED <<failed_to_install, result>>
             ELSE /\ failed_to_install' = Append(failed_to_install, Format(package_name, manager_name))
                  /\ pc' = "menu"
                  /\ result' = "spawn error"
                  /\ UNCHANGED <<newly_installed, ki, pi>>
    /\ UNCHANGED <<file, probe, missingCheck, preserve_order, envChanged, op, package_list_map,
                   detected_managers_map, already_installed, runs, prevNewly,
                   changedBetween, listVars, callVars>>

\* the pair is put in front of its report sequence
InstallingPrepends ==
    /\ pc = "installing"
    /\ \E out \in Outcomes :
          /\ log' = Spawned("install", InstallCommand(manager_name, package_name), out)
          /\ installed' = IF InstallCommand(manager_name, package_name) # <<>> /\ out = "ok"
                          THEN installed \cup {<<manager_name, package_name>>}
                          ELSE installed
          /\ IF InstallSinglePackage(manager_name, package_name, out)
             THEN /\ newly_installed' = <<Format(package_name, manager_name)>> \o newly_installed
                  /\ UNCHANGED failed_to_install
             ELSE /\ failed_to_install' = <<Format(package_name, manager_name)>> \o failed_to_install
                  /\ UNCHANGED newly_installed
    /\ Advance
    /\ UNCHANGED <<file, probe, missingCheck, preserve_order, envChanged, op, result, package_list_map,
                   detected_managers_map, already_installed, runs, prevNewly,
                   changedBetween, listVars, callVars>>

\* a failed install is run a second time before the pair is given up
InstallingRetriesOnce ==
    /\ pc = "installing"
    /\ \E out \in Outcomes :
          /\ log' = Spawned("install", InstallCommand(manager_name, package_name), out)
          /\ installed' = IF InstallCommand(manager_name, package_name) # <<>> /\ out = "ok"
                          THEN installed \cup {<<manager_name, package_name>>}
                          ELSE installed
          /\ IF InstallSinglePackage(manager_name, package_name, out)
             THEN /\ newly_installed' = Append(newly_installed, Format(package_name, manager_name))
                  /\ Advance
                  /\ UNCHANGED failed_to_install
             ELSE IF \E i \in DOMAIN log :
                        log[i].kind = "install" /\ log[i].k = ki /\ log[i].p = pi
             THEN /\ failed_to_install' = Append(failed_to_install, Format(package_name, manager_name))
                  /\ Advance
                  /\ UNCHANGED newly_installed
             ELSE UNCHANGED <<pc, ki, pi, newly_installed, failed_to_install>>
    /\ UNCHANGED <<file, probe, missingCheck, preserve_order, envChanged, op, result, package_list_map,
                   detected_managers_map, already_installed, runs, prevNewly,
                   changedBetween, listVars, callVars>>

\* pkg_mgmt.rs:123-128: install_single_package(manager_name, package_name)
Installing ==
    /\ pc = "installing"
    /\ \E out \in Outcomes :
          /\ log' = Spawned("install", InstallCommand(manager_name, package_name), out)
          /\ installed' = IF InstallCommand(manager_name, package_name) # <<>> /\ out = "ok"
                          THEN installed \cup {<<manager_name, package_name>>}
                          ELSE installed
          /\ IF InstallSinglePackage(manager_name, package_name, out)
             THEN /\ newly_installed' = Append(newly_installed, Format(package_name, manager_name))
                  /\ UNCHANGED failed_to_install
             ELSE /\ failed_to_install' = Append(failed_to_install, Format(package_name, manager_name))
                  /\ UNCHANGED newly_installed
    /\ Advance
    /\ UNCHANGED <<file, probe, missingCheck, preserve_order, envChanged, op, result, package_list_map,
                   detected_managers_map, already_installed, runs, prevNewly,
                   changedBetween, listVars, callVars>>

\* the catalog file is removed once it has been reconciled
ReportingRemovesCatalog ==
    /\ pc = "reporting"
    /\ pc' = "menu"
    /\ result' = "ok"
    /\ file' = NoFile
    /\ UNCHANGED <<envVars, op, runVars, listVars, callVars>>

\* pkg_mgmt.rs:139-168: print the summary, return Ok(())
Reporting ==
    /\ pc = "reporting"
    /\ pc' = "menu"
    /\ result' = "ok"
    /\ UNCHANGED <<file, envVars, op, runVars, listVars, callVars>>

\* menu choice "4", once
ChooseInstallOnce == runs = 0 /\ ChooseInstall

\* a package is removed from the host by something else than this program
EnvChange ==
    /\ pc = "menu"
    /\ \E pair \in installed : installed' = installed \ {pair}
    /\ envChanged' = TRUE
    /\ UNCHANGED <<file, probe, missingCheck, preserve_order, pc, op, result, runVars, listVars, callVars>>

\* while a run is in its loops a manager is removed from the host or added
\* to it by something else than this program, at most once per run; the log
\* keeps the moment
ProbeChange ==
    /\ pc \in {"checking", "installing"}
    /\ ~envChanged
    /\ envChanged' = TRUE
    /\ \E m \in ActiveManagers :
          /\ probe' = [probe EXCEPT ![m] = IF probe[m] = "ok" THEN "spawn_err" ELSE "ok"]
          /\ log' = Append(log, [kind |-> "probe", manager |-> m, package |-> "", k |-> ki,
                                 p |-> pi, argv |-> <<>>, out |-> probe'[m]])
    /\ UNCHANGED <<file, missingCheck, preserve_order, installed, pc, op, result, package_list_map,
                   detected_managers_map, ki, pi, already_installed, newly_installed,
                   failed_to_install, runs, prevNewly, changedBetween, listVars, callVars>>

(***************************************************************************)
(* Lister and Aggregator, pkg_get.rs.                                      *)
(***************************************************************************)
\* the names of the managers in the order of the table (pkg_mgmt.rs:14-22)
TableOrder == [i \in DOMAIN managers |-> managers[i][1]]

\* the names of the managers in the order of their bytes
SortedOrder == <<"apt", "flatpak", "pacman", "portage", "snap", "xbps", "yum_dnf">>

\* iteration order of the keys of detected_managers_map (pkg_get.rs:85): the
\* Map parsed from the text detect_package_managers wrote, whose members are
\* in the order of the Map it built of the managers (pkg_mgmt.rs:12-31): the
\* order of the table with preserve_order, the sorted order without
DetectedOrder == IF preserve_order THEN TableOrder ELSE SortedOrder

\* what the list command of a manager does: it cannot be spawned, or it ends
\* with a status and a stdout from which the line rule extracts `names`
ListerOutcomes ==
    {[spawned |-> FALSE, status |-> "none", names |-> <<>>]} \cup
    [spawned : {TRUE}, status : {"ok", "nonzero"}, names : SeqsUpTo(PackageNames, MaxListed)]

\* The outcomes the package menu tells apart: combine_json_outputs returns the
\* exit status 0 whatever the statuses of the list commands were
\* (pkg_mgmt.rs:70), so two outcomes that differ in the status alone lead the
\* menu to the same state and one of them is drawn
MenuListerOutcomes == {o \in ListerOutcomes : o.status # "nonzero"}

\* io::Result<Output>
OkOutput(stdout, status) == [ok |-> TRUE, stdout |-> stdout, status |-> status]
ErrOutput(msg) == [ok |-> FALSE, stdout |-> JNum, status |-> msg]

\* pkg_get.rs:123-258, get_<manager>_packages: `?` on the spawn, then the JSON
\* object {manager: names} whatever the exit status
Lister(manager, o) ==
    IF ~o.spawned
    THEN ErrOutput("spawn error")
    ELSE OkOutput(JObj(<<Entry(manager, JArr([i \in DOMAIN o.names |-> JStr(o.names[i])]))>>),
                  o.status)


\* a result that is an error is passed over and the other results are combined
RECURSIVE CombineFromSkipsErrors(_, _)
CombineFromSkipsErrors(results, combined_map) ==
    IF results = <<>> THEN OkOutput(JObj(combined_map), "ok")
    ELSE LET r == Head(results)
         IN  IF ~r.ok THEN CombineFromSkipsErrors(Tail(results), combined_map)
             ELSE CombineFromSkipsErrors(Tail(results), MapExtend(combined_map, r.stdout.entries))

\* the output of a list command that exited non-zero is passed over
RECURSIVE CombineFromSkipsFailedStatus(_, _)
CombineFromSkipsFailedStatus(results, combined_map) ==
    IF results = <<>> THEN OkOutput(JObj(combined_map), "ok")
    ELSE LET r == Head(results)
         IN  IF ~r.ok THEN r
             ELSE IF r.status # "ok" THEN CombineFromSkipsFailedStatus(Tail(results), combined_map)
             ELSE IF r.stdout.t = "empty" THEN CombineFromSkipsFailedStatus(Tail(results), combined_map)
             ELSE IF r.stdout.t = "invalid" THEN ErrOutput("Failed to parse JSON")
             ELSE IF r.stdout.t = "object"
                  THEN CombineFromSkipsFailedStatus(Tail(results), MapExtend(combined_map, r.stdout.entries))
                  ELSE ErrOutput("Expected JSON object from package listing")

\* pkg_mgmt.rs:44-72
RECURSIVE CombineFrom(_, _)
CombineFrom(results, combined_map) ==
    IF results = <<>> THEN OkOutput(JObj(combined_map), "ok")
    ELSE LET r == Head(results)
         IN  IF ~r.ok THEN r
             ELSE IF r.stdout.t = "empty" THEN CombineFrom(Tail(results), combined_map)
             ELSE IF r.stdout.t = "invalid" THEN ErrOutput("Failed to parse JSON")
             ELSE IF r.stdout.t = "object"
                  THEN CombineFrom(Tail(results), MapExtend(combined_map, r.stdout.entries))
                  ELSE ErrOutput("Expected JSON object from package listing")

CombineJsonOutputs(results) == CombineFrom(results, <<>>)

\* pkg_get.rs:85-103: the managers a Lister is invoked for, in order
RECURSIVE ListedFrom(_, _)
ListedFrom(det, i) ==
    IF i > Len(DetectedOrder) THEN <<>>
    ELSE IF DetectedOrder[i] \in DOMAIN det /\ det[DetectedOrder[i]] /\ DetectedOrder[i] \in ManagerIds
         THEN <<DetectedOrder[i]>> \o ListedFrom(det, i + 1)
         ELSE ListedFrom(det, i + 1)

\* is_present is not looked at: every manager of the map is listed
ListedManagersAll(det) == DetectedOrder

ListedManagers(det) == ListedFrom(det, 1)

\* pkg_get.rs:107
MarkerText == "No package managers detected or no packages listed."

MarkerDocument == JObj(<<Entry("message", JStr(MarkerText))>>)

\* the marker is returned when no package was listed, not when no Lister ran
ListAllPackagesMarkerWhenEmpty(det, outs) ==
    LET ms == ListedManagers(det)
        package_listing_results == [i \in DOMAIN ms |-> Lister(ms[i], outs[ms[i]])]
    IN  IF \A i \in DOMAIN ms : outs[ms[i]].names = <<>>
        THEN OkOutput(MarkerDocument, "ok")
        ELSE CombineJsonOutputs(package_listing_results)

\* pkg_get.rs:69-118; outs gives the outcome of the list command of each manager listed
ListAllPackages(det, outs) ==
    LET ms == ListedManagers(det)
        package_listing_results == [i \in DOMAIN ms |-> Lister(ms[i], outs[ms[i]])]
    IN  IF package_listing_results = <<>>
        THEN OkOutput(MarkerDocument, "ok")
        ELSE CombineJsonOutputs(package_listing_results)

\* package_menu "1" (pkg_get.rs:27-32)
ChooseDetect ==
    /\ pc = "menu"
    /\ op' = "detect"
    /\ result' = "ok"
    /\ detected_managers_map' = DetectPackageManagers(probe)
    /\ UNCHANGED <<file, envVars, pc, package_list_map, ki, pi, already_installed,
                   newly_installed, failed_to_install, log, runs, prevNewly,
                   changedBetween, listVars, callVars>>

\* package_menu "2" (pkg_get.rs:33-40)
ChooseList ==
    /\ pc = "menu"
    /\ op' = "list"
    /\ detected_managers_map' = DetectPackageManagers(probe)
    /\ listed' = Range(ListedManagers(detected_managers_map'))
    /\ \E outs \in [listed' -> MenuListerOutcomes] :
          /\ output' = ListAllPackages(detected_managers_map', outs)
          /\ listOuts' = [m \in listed' |-> [spawned |-> outs[m].spawned,
                                             count |-> Len(outs[m].names)]]
    /\ result' = IF output'.ok THEN "ok" ELSE output'.status
    /\ UNCHANGED <<file, envVars, pc, package_list_map, ki, pi, already_installed,
                   newly_installed, failed_to_install, log, runs, prevNewly,
                   changedBetween, callVars>>

\* the new listing is merged into the document saved before
ChooseSaveMerges ==
    /\ pc = "menu"
    /\ op' = "save"
    /\ detected_managers_map' = DetectPackageManagers(probe)
    /\ listed' = Range(ListedManagers(detected_managers_map'))
    /\ \E outs \in [listed' -> MenuListerOutcomes] :
          /\ output' = ListAllPackages(detected_managers_map', outs)
          /\ listOuts' = [m \in listed' |-> [spawned |-> outs[m].spawned,
                                             count |-> Len(outs[m].names)]]
    /\ \E io \in {"ok", "create_err", "write_err"} :
          IF ~output'.ok
          THEN /\ result' = output'.status
               /\ UNCHANGED file
          ELSE IF io = "ok"
          THEN /\ result' = "ok"
               /\ file' = IF file.t = "object" /\ output'.stdout.t = "object"
                          THEN JObj(MapExtend(file.entries, output'.stdout.entries))
                          ELSE output'.stdout
          ELSE IF io = "create_err"
          THEN /\ result' = "save error"
               /\ UNCHANGED file
          ELSE /\ result' = "save error"
               /\ file' \in {InvalidText, Unreadable}
    /\ UNCHANGED <<envVars, pc, package_list_map, ki, pi, already_installed,
                   newly_installed, failed_to_install, log, runs, prevNewly,
                   changedBetween, callVars>>

\* package_menu "3" (pkg_get.rs:41-50) and save_package_list (pkg_mgmt.rs:74-85).
\* io is what the file system does: "create_err" when the directory or the file
\* cannot be created (lines 79, 81), "write_err" when File::create has truncated
\* the file and write_all fails (line 82), which leaves the text cut off: no
\* JSON text when cut between two characters, no text at all when cut within a
\* character of several bytes (a package name stands for any name that a
\* Lister returns)
ChooseSave ==
    /\ pc = "menu"
    /\ op' = "save"
    /\ detected_managers_map' = DetectPackageManagers(probe)
    /\ listed' = Range(ListedManagers(detected_managers_map'))
    /\ \E outs \in [listed' -> MenuListerOutcomes] :
          /\ output' = ListAllPackages(detected_managers_map', outs)
          /\ listOuts' = [m \in listed' |-> [spawned |-> outs[m].spawned,
                                             count |-> Len(outs[m].names)]]
    /\ \E io \in {"ok", "create_err", "write_err"} :
          IF ~output'.ok
          THEN /\ result' = output'.status
               /\ UNCHANGED file
          ELSE IF io = "ok"
          THEN /\ result' = "ok"
               /\ file' = output'.stdout
          ELSE IF io = "create_err"
          THEN /\ result' = "save error"
               /\ UNCHANGED file
          ELSE /\ result' = "save error"
               /\ file' \in {InvalidText, Unreadable}
    /\ UNCHANGED <<envVars, pc, package_list_map, ki, pi, already_installed,
                   newly_installed, failed_to_install, log, runs, prevNewly,
                   changedBetween, callVars>>

(***************************************************************************)
(* list_all_packages on its own: the probes and the outcome of each list    *)
(* command are the inputs of one call.                                      *)
(***************************************************************************)
ListAllPackagesRun ==
    /\ call.fn = "list_all_packages"
    /\ ret.st = "none"
    /\ LET det == DetectPackageManagers(call.probe)
       IN  ret' = [st |-> "listed", det |-> det, output |-> ListAllPackages(det, call.outs)]
    /\ UNCHANGED <<file, envVars, pc, op, result, runVars, listVars, call>>

(***************************************************************************)
(* Catalog documents the Reconciler is started on.                         *)
(***************************************************************************)
CatalogKeys == ActiveManagers \cup {UnknownKey}

\* array values of package names, and the value of the marker document
CatalogValues ==
    {JArr(a) : a \in SeqsUpTo({JStr(n) : n \in PackageNames}, MaxSize - 1)} \cup {JStr(MarkerText)}

NumElems(v) == IF v.t = "array" THEN Len(v.a) ELSE 0

RECURSIVE TotalElems(_)
TotalElems(entries) ==
    IF entries = <<>> THEN 0
    ELSE NumElems(entries[1].val) + TotalElems(Tail(entries))

CatalogEntries ==
    {e \in SeqsUpTo([key : CatalogKeys, val : CatalogValues], Cardinality(CatalogKeys)) :
        /\ \A i, j \in DOMAIN e : i # j => e[i].key # e[j].key
        /\ Len(e) + TotalElems(e) <= MaxSize}

Files == {NoFile, Unreadable, InvalidText, JNum} \cup {JObj(e) : e \in CatalogEntries}

KeysOf(f) == IF f.t # "object" THEN {} ELSE {f.entries[i].key : i \in DOMAIN f.entries}

\* the <<manager, package>> pairs of a document
PairsOf(f) ==
    IF f.t # "object" THEN {}
    ELSE {<<f.entries[i].key, f.entries[i].val.a[j].s>> :
            <<i, j>> \in {x \in (DOMAIN f.entries) \X (1..MaxSize) :
                            /\ f.entries[x[1]].val.t = "array"
                            /\ x[2] \in DOMAIN f.entries[x[1]].val.a
                            /\ f.entries[x[1]].val.a[x[2]].t = "string"}}

\* The existence checks that cannot be spawned on a host: every check of the
\* managers whose query binary is missing, or the check of one name that
\* cannot be handed to a command (it holds a NUL byte)
UnspawnableChecks(f) ==
    LET pairs == {pair \in PairsOf(f) : pair[1] \in ActiveManagers}
    IN  {{pair \in pairs : pair[1] \in M} : M \in SUBSET (ActiveManagers \cap KeysOf(f))}
        \cup {{pair} : pair \in pairs}

\* no single function is being applied
InitCall ==
    /\ call = [fn |-> "none"]
    /\ ret = [st |-> "none"]

InitRun ==
    /\ pc = "menu"
    /\ op = "none"
    /\ result = "none"
    /\ package_list_map = <<>>
    /\ detected_managers_map = [m \in {} |-> FALSE]
    /\ ki = 1
    /\ pi = 1
    /\ already_installed = <<>>
    /\ newly_installed = <<>>
    /\ failed_to_install = <<>>
    /\ log = <<>>
    /\ runs = 0
    /\ prevNewly = <<>>
    /\ changedBetween = FALSE
    /\ output = [ok |-> TRUE, val |-> JNum]
    /\ listed = {}
    /\ listOuts = [m \in {} |-> FALSE]

\* The probe of a manager the document does not name fails, and so does the
\* probe of every manager outside ActiveManagers.  After detection a probe
\* that was not spawned and one that exited non-zero are the same (SpecDetect
\* has all three outcomes), so a failing probe is "spawn_err" here.
Init ==
    /\ file \in Files
    /\ probe \in {pr \in [ManagerIds -> {"spawn_err", "ok"}] :
                    \A m \in ManagerIds \ (ActiveManagers \cap KeysOf(file)) : pr[m] = "spawn_err"}
    /\ missingCheck \in UnspawnableChecks(file)
    /\ preserve_order \in BOOLEAN
    /\ installed \in SUBSET {pair \in PairsOf(file) : pair[1] \in ActiveManagers}
    /\ envChanged = FALSE
    /\ InitRun
    /\ InitCall

\* one Reconciler run
Next ==
    \/ ChooseInstallOnce
    \/ Detecting
    \/ Checking
    \/ Installing
    \/ Reporting

Spec == Init /\ [][Next]_vars

\* install_packages is sequential code and every command it waits for ends:
\* a step of a run that is under way is taken
SpecLive ==
    /\ Init
    /\ [][Next]_vars
    /\ WF_vars(Detecting)
    /\ WF_vars(Checking)
    /\ WF_vars(Installing)
    /\ WF_vars(Reporting)

(***************************************************************************)
(* Up to MaxRuns Reconciler runs, one after the other, on one catalog;     *)
(* between the runs packages may be removed from the host.                 *)
(***************************************************************************)
\* the catalogs the runs are repeated on
RerunFiles == {JObj(e) : e \in {x \in CatalogEntries : Len(x) + TotalElems(x) < MaxSize}}

InitRerun ==
    /\ file \in RerunFiles
    /\ probe \in {pr \in [ManagerIds -> {"spawn_err", "ok"}] :
                    \A m \in ManagerIds \ (ActiveManagers \cap KeysOf(file)) : pr[m] = "spawn_err"}
    /\ missingCheck \in UnspawnableChecks(file)
    /\ preserve_order \in BOOLEAN
    /\ installed \in SUBSET {pair \in PairsOf(file) : pair[1] \in ActiveManagers}
    /\ envChanged = FALSE
    /\ InitRun
    /\ InitCall

NextRerun ==
    \/ ChooseInstall
    \/ Detecting
    \/ Checking
    \/ Installing
    \/ Reporting
    \/ EnvChange

SpecRerun == InitRerun /\ [][NextRerun]_vars

(***************************************************************************)
(* The Aggregator on a host without a saved catalog.                       *)
(***************************************************************************)
\* Saves on a host where an earlier session saved a catalog of flatpak.
SavedBefore == JObj(<<Entry("flatpak", JArr(<<JStr("vim")>>))>>)

InitSave ==
    /\ file = SavedBefore
    /\ probe \in {pr \in [ManagerIds -> {"spawn_err", "ok"}] :
                    \A m \in ManagerIds \ ActiveManagers : pr[m] = "spawn_err"}
    /\ missingCheck = {}
    /\ preserve_order \in BOOLEAN
    /\ installed = {}
    /\ envChanged = FALSE
    /\ InitRun
    /\ InitCall

NextSave == ChooseSave

SpecSave == InitSave /\ [][NextSave]_vars

InitAggregate ==
    /\ file = NoFile
    /\ probe = [m \in ManagerIds |-> "spawn_err"]
    /\ missingCheck = {}
    /\ preserve_order \in BOOLEAN
    /\ installed = {}
    /\ envChanged = FALSE
    /\ InitRun
    /\ \E pr \in {q \in [ManagerIds -> Outcomes] :
                    \A m \in ManagerIds \ ActiveManagers : q[m] = "spawn_err"} :
          \E outs \in [Range(ListedManagers(DetectPackageManagers(pr))) -> ListerOutcomes] :
              call = [fn |-> "list_all_packages", probe |-> pr, outs |-> outs]
    /\ ret = [st |-> "none"]

NextAggregate == ListAllPackagesRun

SpecAggregate == InitAggregate /\ [][NextAggregate]_vars

InitList ==
    /\ file = NoFile
    /\ probe \in {pr \in [ManagerIds -> Outcomes] :
                    \A m \in ManagerIds \ ActiveManagers : pr[m] = "spawn_err"}
    /\ missingCheck = {}
    /\ preserve_order \in BOOLEAN
    /\ installed = {}
    /\ envChanged = FALSE
    /\ InitRun
    /\ InitCall

NextList ==
    \/ ChooseDetect
    \/ ChooseList
    \/ ChooseSave

SpecList == InitList /\ [][NextList]_vars

(***************************************************************************)
(* The Detector on every host.                                             *)
(***************************************************************************)
InitDetect ==
    /\ file = NoFile
    /\ probe \in [ManagerIds -> Outcomes]
    /\ missingCheck = {}
    /\ preserve_order \in BOOLEAN
    /\ installed = {}
    /\ envChanged = FALSE
    /\ InitRun
    /\ InitCall

NextDetect == ChooseDetect

SpecDetect == InitDetect /\ [][NextDetect]_vars

(***************************************************************************)
(* The Reconciler on a catalog document that is not of the catalog's       *)
(* shape: top level not an object, a value not an array, an element not a  *)
(* string.                                                                 *)
(***************************************************************************)
\* values of a key: arrays of package names and numbers, and a number
MalformedValues ==
    {JArr(a) : a \in SeqsUpTo({JStr(n) : n \in PackageNames} \cup {JNum}, MaxSize - 1)} \cup {JNum}

WellFormedValue(v) ==
    v.t = "array" /\ \A j \in DOMAIN v.a : v.a[j].t = "string"

\* the document is not {manager: [name, ...], ...}
Malformed(f) ==
    \/ f.t \in {"number", "string", "array"}
    \/ f.t = "object" /\ \E i \in DOMAIN f.entries : ~WellFormedValue(f.entries[i].val)

MalformedFiles ==
    {JNum} \cup
    {JObj(e) : e \in {x \in SeqsUpTo([key : ActiveManagers, val : MalformedValues],
                                     Cardinality(ActiveManagers)) :
                        /\ \A i, j \in DOMAIN x : i # j => x[i].key # x[j].key
                        /\ Len(x) + TotalElems(x) <= MaxSize
                        /\ Malformed(JObj(x))}}

InitMalformed ==
    /\ file \in MalformedFiles
    /\ probe \in {pr \in [ManagerIds -> {"spawn_err", "ok"}] :
                    \A m \in ManagerIds \ (ActiveManagers \cap KeysOf(file)) : pr[m] = "spawn_err"}
    /\ missingCheck = {}
    /\ preserve_order \in BOOLEAN
    /\ installed \in SUBSET {pair \in PairsOf(file) : pair[1] \in ActiveManagers}
    /\ envChanged = FALSE
    /\ InitRun
    /\ InitCall

NextMalformed ==
    \/ ChooseInstall
    \/ Detecting
    \/ Checking
    \/ Installing
    \/ Reporting
    \/ EnvChange

SpecMalformed == InitMalformed /\ [][NextMalformed]_vars

(***************************************************************************)
(* One Reconciler run over a catalog of two available managers with        *)
(* several packages each.                                                  *)
(***************************************************************************)
\* at most MaxPerKey packages under each key of such a catalog
MaxPerKey == 2

\* arrays of one to MaxPerKey package names
NameArrays == {JArr(a) : a \in SeqsUpTo({JStr(n) : n \in PackageNames}, MaxPerKey) \ {<<>>}}

\* The two managers, each with its packages, flatpak before apt in the text:
\* the default build of serde_json loads the keys sorted and goes through apt
\* first, a preserve_order build goes through flatpak first.  (A text that
\* names apt first is loaded to the same map by both builds.)
TwoKeyFiles ==
    {JObj(<<Entry("flatpak", v1), Entry("apt", v2)>>) : <<v1, v2>> \in NameArrays \X NameArrays}

InitTwoKeys ==
    /\ file \in TwoKeyFiles
    /\ probe = [m \in ManagerIds |-> IF m \in ActiveManagers THEN "ok" ELSE "spawn_err"]
    /\ missingCheck = {}
    /\ preserve_order \in BOOLEAN
    /\ installed \in {{}, {<<"apt", "curl">>, <<"flatpak", "vim">>}}
    /\ envChanged = FALSE
    /\ InitRun
    /\ InitCall

NextTwoKeys ==
    \/ ChooseInstallOnce
    \/ Detecting
    \/ Checking
    \/ Installing
    \/ Reporting

SpecTwoKeys == InitTwoKeys /\ [][NextTwoKeys]_vars

(***************************************************************************)
(* One Reconciler run during which the availability of a manager changes.  *)
(***************************************************************************)
\* the two managers in either order with one package each
OnePackageFiles ==
    {JObj(<<Entry(k1, JArr(<<JStr(n1)>>)), Entry(k2, JArr(<<JStr(n2)>>))>>) :
        <<k1, k2>> \in {x \in ActiveManagers \X ActiveManagers : x[1] # x[2]},
        <<n1, n2>> \in PackageNames \X PackageNames}

InitSnapshot ==
    /\ file \in OnePackageFiles
    /\ probe \in {pr \in [ManagerIds -> {"spawn_err", "ok"}] :
                    \A m \in ManagerIds \ ActiveManagers : pr[m] = "spawn_err"}
    /\ missingCheck = {}
    /\ preserve_order \in BOOLEAN
    /\ installed \in SUBSET {<<"apt", "curl">>, <<"flatpak", "vim">>}
    /\ envChanged = FALSE
    /\ InitRun
    /\ InitCall

NextSnapshot ==
    \/ ChooseInstallOnce
    \/ Detecting
    \/ Checking
    \/ Installing
    \/ Reporting
    \/ ProbeChange

SpecSnapshot == InitSnapshot /\ [][NextSnapshot]_vars

(***************************************************************************)
(* The package menu with its four operations, on a host where apt is the   *)
(* only manager that may be present and the catalog file is absent or is   *)
(* not a catalog at first; the Reconciler is run once.                     *)
(***************************************************************************)
InitMenu ==
    /\ file \in {NoFile, Unreadable, InvalidText, JNum}
    /\ probe \in {pr \in [ManagerIds -> {"spawn_err", "ok"}] :
                    \A m \in ManagerIds \ {"apt"} : pr[m] = "spawn_err"}
    /\ missingCheck \in {{}, {"apt"} \X PackageNames}
    /\ preserve_order \in BOOLEAN
    /\ installed = {}
    /\ envChanged = FALSE
    /\ InitRun
    /\ InitCall

\* package_menu "0" (pkg_get.rs:60): back to the main menu
ChooseBack ==
    /\ pc = "menu"
    /\ pc' = "main"
    /\ op' = "back"
    /\ result' = "none"
    /\ UNCHANGED <<file, envVars, runVars, listVars, callVars>>

\* package_menu, any other choice (pkg_get.rs:61): "Invalid choice", and the
\* menu again
ChooseOther ==
    /\ pc = "menu"
    /\ op' = "invalid"
    /\ result' = "none"
    /\ UNCHANGED <<file, envVars, pc, runVars, listVars, callVars>>

\* package_menu cannot read the choice (pkg_get.rs:23): read_line(..)? returns
\* the error to main, which reports it and shows the main menu (main.rs:24)
ReadLineError ==
    /\ pc = "menu"
    /\ pc' = "main"
    /\ op' = "read_line"
    /\ result' = "read error"
    /\ UNCHANGED <<file, envVars, runVars, listVars, callVars>>

\* main "1" (main.rs:20-26): the package menu is opened
MainPackageMenu ==
    /\ pc = "main"
    /\ pc' = "menu"
    /\ op' = "package_menu"
    /\ result' = "none"
    /\ UNCHANGED <<file, envVars, runVars, listVars, callVars>>

\* main "2" and any other choice (main.rs:27-30, 35-37): a line is printed
\* and the main menu is shown again
MainOther ==
    /\ pc = "main"
    /\ op' = "main_other"
    /\ result' = "none"
    /\ UNCHANGED <<file, envVars, pc, runVars, listVars, callVars>>

\* main cannot read the choice (main.rs:16): .expect("Failed to read line")
\* panics and the process ends
MainReadLinePanic ==
    /\ pc = "main"
    /\ pc' = "panicked"
    /\ op' = "main_read_line"
    /\ result' = "read error"
    /\ UNCHANGED <<file, envVars, runVars, listVars, callVars>>

\* main "0" (main.rs:31-34): process::exit(0)
MainExit ==
    /\ pc = "main"
    /\ pc' = "exited"
    /\ op' = "exit"
    /\ result' = "none"
    /\ UNCHANGED <<file, envVars, runVars, listVars, callVars>>

NextMenu ==
    \/ ChooseDetect
    \/ ChooseList
    \/ ChooseSave
    \/ ChooseInstallOnce
    \/ Detecting
    \/ Checking
    \/ Installing
    \/ Reporting
    \/ ChooseOther
    \/ ChooseBack
    \/ ReadLineError
    \/ MainPackageMenu
    \/ MainOther
    \/ MainExit
    \/ MainReadLinePanic

SpecMenu == InitMenu /\ [][NextMenu]_vars

(***************************************************************************)
(* JSON text: serde_json::to_string_pretty and serde_json::from_str.       *)
(* A text is a sequence of characters; in this section the strings of a    *)
(* JSON value (keys, package names) are sequences of characters too.       *)
(***************************************************************************)
\* at most MaxNames package names under one key of a catalog that is written and read back
MaxNames == 2

Whitespace == {" ", "\n", "\t", "\r"}

\* The characters U+0000 to U+007F in the order of their codes.  A character
\* that cannot be written in a string of this language is written as its name
\* "U+XXXX", and so is every character above U+007F.
Ascii ==
    <<"U+0000", "U+0001", "U+0002", "U+0003", "U+0004", "U+0005", "U+0006", "U+0007",
       "U+0008", "\t", "\n", "U+000B", "\f", "\r", "U+000E", "U+000F",
       "U+0010", "U+0011", "U+0012", "U+0013", "U+0014", "U+0015", "U+0016", "U+0017",
       "U+0018", "U+0019", "U+001A", "U+001B", "U+001C", "U+001D", "U+001E", "U+001F",
       " ", "!", "\"", "#", "$", "%", "&", "'",
       "(", ")", "*", "+", ",", "-", ".", "/",
       "0", "1", "2", "3", "4", "5", "6", "7",
       "8", "9", ":", ";", "<", "=", ">", "?",
       "@", "A", "B", "C", "D", "E", "F", "G",
       "H", "I", "J", "K", "L", "M", "N", "O",
       "P", "Q", "R", "S", "T", "U", "V", "W",
       "X", "Y", "Z", "[", "\\", "]", "^", "_",
       "U+0060", "a", "b", "c", "d", "e", "f", "g",
       "h", "i", "j", "k", "l", "m", "n", "o",
       "p", "q", "r", "s", "t", "u", "v", "w",
       "x", "y", "z", "{", "|", "}", "~", "U+007F">>

\* the characters of a string of this language
Chars(s) == [i \in 1..Len(s) |-> SubSeq(s, i, i)]

\* U+0000 to U+001F
ControlChars == {Ascii[i] : i \in 1..32}

Digits == {"0", "1", "2", "3", "4", "5", "6", "7", "8", "9"}

HexLower == <<"0", "1", "2", "3", "4", "5", "6", "7", "8", "9", "a", "b", "c", "d", "e", "f">>
HexUpper == <<"0", "1", "2", "3", "4", "5", "6", "7", "8", "9", "A", "B", "C", "D", "E", "F">>
HexChars == Range(HexLower) \cup Range(HexUpper)
HexValue(c) == (CHOOSE i \in 1..16 : HexLower[i] = c \/ HexUpper[i] = c) - 1

\* the number that hexadecimal digits stand for
RECURSIVE HexNumber(_, _)
HexNumber(digits, acc) ==
    IF digits = <<>> THEN acc ELSE HexNumber(Tail(digits), 16 * acc + HexValue(Head(digits)))

\* the code of a character: its place in Ascii, or the XXXX of its name
Code(c) ==
    IF c \in Range(Ascii) THEN (CHOOSE i \in DOMAIN Ascii : Ascii[i] = c) - 1
    ELSE HexNumber(SubSeq(Chars(c), 3, Len(c)), 0)

\* the character of a code: below 128 the one of Ascii, else its name
CharOf(n) ==
    IF n < 128 THEN Ascii[n + 1]
    ELSE IF n < 65536
    THEN "U+" \o HexUpper[(n \div 4096) + 1] \o HexUpper[((n \div 256) % 16) + 1]
              \o HexUpper[((n \div 16) % 16) + 1] \o HexUpper[(n % 16) + 1]
    ELSE "U+" \o HexUpper[(n \div 1048576) + 1] \o HexUpper[((n \div 65536) % 16) + 1]
              \o HexUpper[((n \div 4096) % 16) + 1] \o HexUpper[((n \div 256) % 16) + 1]
              \o HexUpper[((n \div 16) % 16) + 1] \o HexUpper[(n % 16) + 1]

\* order of the UTF-8 bytes of two characters, which is the order of their codes
CharRank(c) == Code(c)

\* order of String on keys that are sequences of characters
RECURSIVE TextLess(_, _)
TextLess(a, b) ==
    IF b = <<>> THEN FALSE
    ELSE IF a = <<>> THEN TRUE
    ELSE IF Head(a) = Head(b) THEN TextLess(Tail(a), Tail(b))
    ELSE CharRank(Head(a)) < CharRank(Head(b))

TextMapInsert(map, e) ==
    MapInsertAt(map, e, Cardinality({i \in DOMAIN map : TextLess(map[i].key, e.key)}))

RECURSIVE TextMapExtend(_, _)
TextMapExtend(map, entries) ==
    IF entries = <<>> THEN map
    ELSE TextMapExtend(TextMapInsert(map, Head(entries)), Tail(entries))

\* the quote is written as it is
EscapeCharKeepsQuote(c) ==
    CASE c = "\\" -> <<"\\", "\\">>
      [] c = "U+0008" -> <<"\\", "b">>
      [] c = "\t" -> <<"\\", "t">>
      [] c = "\n" -> <<"\\", "n">>
      [] c = "\f" -> <<"\\", "f">>
      [] c = "\r" -> <<"\\", "r">>
      [] c \in ControlChars \ {"U+0008", "\t", "\n", "\f", "\r"} ->
            <<"\\", "u", "0", "0", HexLower[(Code(c) \div 16) + 1], HexLower[(Code(c) % 16) + 1]>>
      [] OTHER    -> <<c>>

\* serde_json ser::format_escaped_str: the quote, the backslash and the
\* characters below U+0020, by their short escape or else as \u00XX
EscapeChar(c) ==
    CASE c = "\"" -> <<"\\", "\"">>
      [] c = "\\" -> <<"\\", "\\">>
      [] c = "U+0008" -> <<"\\", "b">>
      [] c = "\t" -> <<"\\", "t">>
      [] c = "\n" -> <<"\\", "n">>
      [] c = "\f" -> <<"\\", "f">>
      [] c = "\r" -> <<"\\", "r">>
      [] c \in ControlChars \ {"U+0008", "\t", "\n", "\f", "\r"} ->
            <<"\\", "u", "0", "0", HexLower[(Code(c) \div 16) + 1], HexLower[(Code(c) % 16) + 1]>>
      [] OTHER    -> <<c>>

RECURSIVE Escape(_)
Escape(s) == IF s = <<>> THEN <<>> ELSE EscapeChar(Head(s)) \o Escape(Tail(s))

WriteString(s) == <<"\"">> \o Escape(s) \o <<"\"">>

\* PrettyFormatter: two spaces per level
Indent(depth) == [i \in 1..(2 * depth) |-> " "]

\* Body at the value of x, with x worked out once, before Body
Eval(x, Body(_)) == CHOOSE r \in {Body(y) : y \in {x}} : TRUE

Zeros(n) == [i \in 1..n |-> "0"]

\* the decimal digits of a natural number
RECURSIVE WriteNat(_)
WriteNat(n) == IF n < 10 THEN <<CharOf(48 + n)>> ELSE Append(WriteNat(n \div 10), CharOf(48 + (n % 10)))

\* The layout of an f64 that is not zero and whose shortest decimal is
\* digits * 10^k (ryu::Buffer::format_finite).  With kk the number of digits
\* before the point: a whole number of at most 16 digits is written out and
\* ends in ".0", a point within the digits or up to five zeros before them is
\* written out, everything else gets an exponent.  The version of serde_json
\* is not fixed by the repository: a build whose serde_json writes floats with
\* ryu writes an exponent that is not negative bare ("1e16"), a build with a
\* later serde_json writes it with a sign ("1e+16"); exponent_plus tells which.
WriteFinite(digits, k, exponent_plus) ==
    Eval(Len(digits) + k, LAMBDA kk :
        IF 0 <= k /\ kk <= 16 THEN digits \o Zeros(k) \o <<".", "0">>
        ELSE IF 0 < kk /\ kk <= 16
        THEN SubSeq(digits, 1, kk) \o <<".">> \o SubSeq(digits, kk + 1, Len(digits))
        ELSE IF (0 - 5) < kk /\ kk <= 0 THEN <<"0", ".">> \o Zeros(0 - kk) \o digits
        ELSE (IF Len(digits) = 1 THEN digits ELSE <<Head(digits), ".">> \o Tail(digits))
             \o <<"e">> \o (IF kk - 1 < 0 THEN <<"-">> \o WriteNat(1 - kk)
                         ELSE (IF exponent_plus THEN <<"+">> ELSE <<>>) \o WriteNat(kk - 1)))

\* serde_json ser: a PosInt or NegInt is written by itoa, a Float by its
\* shortest decimal
WriteNumber(v, exponent_plus) ==
    (IF v.neg THEN <<"-">> ELSE <<>>)
    \o (IF v.kind # "Float" THEN v.digits
        ELSE IF v.digits = <<"0">> THEN <<"0", ".", "0">>
        ELSE WriteFinite(v.digits, v.exp, exponent_plus))

RECURSIVE WriteValue(_, _, _)
RECURSIVE WriteElems(_, _, _, _)
RECURSIVE WriteMembers(_, _, _, _)
WriteValue(v, depth, exponent_plus) ==
    CASE v.t = "string" -> WriteString(v.s)
      [] v.t = "number" -> WriteNumber(v, exponent_plus)
      [] v.t = "null"   -> <<"n", "u", "l", "l">>
      [] v.t = "bool"   -> IF v.b THEN <<"t", "r", "u", "e">> ELSE <<"f", "a", "l", "s", "e">>
      [] v.t = "array"  ->
            IF v.a = <<>> THEN <<"[", "]">>
            ELSE <<"[">> \o WriteElems(v.a, depth + 1, 1, exponent_plus) \o <<"\n">> \o Indent(depth) \o <<"]">>
      [] v.t = "object" ->
            IF v.entries = <<>> THEN <<"{", "}">>
            ELSE <<"{">> \o WriteMembers(v.entries, depth + 1, 1, exponent_plus)
                       \o <<"\n">> \o Indent(depth) \o <<"}">>

WriteElems(a, depth, i, exponent_plus) ==
    IF i > Len(a) THEN <<>>
    ELSE (IF i = 1 THEN <<"\n">> ELSE <<",", "\n">>) \o Indent(depth)
         \o WriteValue(a[i], depth, exponent_plus) \o WriteElems(a, depth, i + 1, exponent_plus)

WriteMembers(entries, depth, i, exponent_plus) ==
    IF i > Len(entries) THEN <<>>
    ELSE (IF i = 1 THEN <<"\n">> ELSE <<",", "\n">>) \o Indent(depth)
         \o WriteString(entries[i].key) \o <<":", " ">>
         \o WriteValue(entries[i].val, depth, exponent_plus)
         \o WriteMembers(entries, depth, i + 1, exponent_plus)

\* pkg_mgmt.rs:64, the text combine_json_outputs hands on, which
\* save_package_list writes to the file byte for byte (pkg_mgmt.rs:80-82)
ToStringPretty(v, exponent_plus) == WriteValue(v, 0, exponent_plus)

\* result of a parsing step: the value read and the position after it
Parsed(v, i) == [ok |-> TRUE, val |-> v, pos |-> i]
Fail == [ok |-> FALSE, val |-> InvalidText, pos |-> 0]

RECURSIVE SkipWs(_, _)
SkipWs(text, i0) ==
    Eval(i0, LAMBDA i :
        IF i <= Len(text) /\ text[i] \in Whitespace THEN SkipWs(text, i + 1) ELSE i)

RECURSIVE SkipDigits(_, _)
SkipDigits(text, i0) ==
    Eval(i0, LAMBDA i :
        IF i <= Len(text) /\ text[i] \in Digits THEN SkipDigits(text, i + 1) ELSE i)

\* the four hexadecimal digits at position i: their value, -1 when they are not there
Hex4(text, i) ==
    IF i + 3 <= Len(text) /\ \A k \in i..(i + 3) : text[k] \in HexChars
    THEN 4096 * HexValue(text[i]) + 256 * HexValue(text[i + 1])
         + 16 * HexValue(text[i + 2]) + HexValue(text[i + 3])
    ELSE 0 - 1

\* serde_json read::parse_escape, from the position i after the backslash: the
\* character the escape stands for (val) and the position after the escape.
\* \uXXXX of a leading surrogate must be followed by \uXXXX of a trailing one;
\* a surrogate on its own is an error.
ParseEscape(text, i) ==
    IF i > Len(text) THEN Fail
    ELSE CASE text[i] = "\"" -> Parsed("\"", i + 1)
           [] text[i] = "\\" -> Parsed("\\", i + 1)
           [] text[i] = "/"  -> Parsed("/", i + 1)
           [] text[i] = "b"  -> Parsed("U+0008", i + 1)
           [] text[i] = "f"  -> Parsed("\f", i + 1)
           [] text[i] = "n"  -> Parsed("\n", i + 1)
           [] text[i] = "r"  -> Parsed("\r", i + 1)
           [] text[i] = "t"  -> Parsed("\t", i + 1)
           [] text[i] = "u"  ->
                 Eval(Hex4(text, i + 1), LAMBDA n1 :
                     IF n1 < 0 THEN Fail
                     ELSE IF n1 >= 56320 /\ n1 <= 57343 THEN Fail
                     ELSE IF n1 >= 55296 /\ n1 <= 56319
                     THEN IF i + 6 <= Len(text) /\ text[i + 5] = "\\" /\ text[i + 6] = "u"
                          THEN Eval(Hex4(text, i + 7), LAMBDA n2 :
                                   IF n2 < 56320 \/ n2 > 57343 THEN Fail
                                   ELSE Parsed(CharOf(65536 + (n1 - 55296) * 1024 + (n2 - 56320)),
                                               i + 11))
                          ELSE Fail
                     ELSE Parsed(CharOf(n1), i + 5))
           [] OTHER -> Fail

\* the characters of a string, from the position after its opening quote; a
\* character below U+0020 must be written as an escape
RECURSIVE ParseChars(_, _, _)
ParseChars(text, i0, acc) ==
    Eval(i0, LAMBDA i :
        IF i > Len(text) THEN Fail
        ELSE IF text[i] = "\"" THEN Parsed(JStr(acc), i + 1)
        ELSE IF text[i] = "\\"
             THEN Eval(ParseEscape(text, i + 1), LAMBDA c :
                      IF ~c.ok THEN Fail ELSE ParseChars(text, c.pos, Append(acc, c.val)))
        ELSE IF text[i] \in ControlChars THEN Fail
        ELSE ParseChars(text, i + 1, Append(acc, text[i])))

\* a literal: the characters of word at position i
ParseLiteral(text, i, word, v) ==
    IF i + Len(word) - 1 <= Len(text) /\ \A k \in DOMAIN word : text[i + k - 1] = word[k]
    THEN Parsed(v, i + Len(word))
    ELSE Fail

U64Max == Chars("18446744073709551615")
I64MinMagnitude == Chars("9223372036854775808")
I32Max == Chars("2147483647")
RECURSIVE StripLeadingZeros(_)
StripLeadingZeros(d) ==
    IF d # <<>> /\ Head(d) = "0" THEN StripLeadingZeros(Tail(d)) ELSE d

RECURSIVE StripTrailingZeros(_)
StripTrailingZeros(d) ==
    IF d # <<>> /\ d[Len(d)] = "0" THEN StripTrailingZeros(SubSeq(d, 1, Len(d) - 1)) ELSE d

\* order of two natural numbers written without leading zeros
DecLess(a, b) == Len(a) < Len(b) \/ (Len(a) = Len(b) /\ TextLess(a, b))

\* the natural number of at most ten digits that is not above i32::MAX
RECURSIVE NatOf(_, _)
NatOf(d, acc) == IF d = <<>> THEN acc ELSE NatOf(Tail(d), 10 * acc + (Code(Head(d)) - 48))

\* significand * 10 + digit; a significand is the digits of a u64, <<>> for 0
Push(significand, digit) ==
    IF significand = <<>> /\ digit = "0" THEN <<>> ELSE Append(significand, digit)

\* the overflow! test of de.rs: significand * 10 + digit is above u64::MAX
Overflows(significand, digit) == DecLess(U64Max, Push(significand, digit))

\* parse_integer and parse_long_integer over the digits before the point:
\* the digits go into the significand until one of them would overflow it;
\* that digit and those after it are counted in the exponent
RECURSIVE IntegerPart(_, _, _)
IntegerPart(digits, k, significand) ==
    IF k > Len(digits) THEN [significand |-> significand, exponent |-> 0]
    ELSE IF Overflows(significand, digits[k])
    THEN [significand |-> significand, exponent |-> Len(digits) - k + 1]
    ELSE IntegerPart(digits, k + 1, Push(significand, digits[k]))

\* parse_decimal and parse_decimal_overflow over the digits after the point:
\* each digit taken into the significand lowers the exponent by one; the
\* one that would overflow it and those after it are dropped
RECURSIVE DecimalPart(_, _, _, _)
DecimalPart(digits, k, significand, exponent) ==
    IF k > Len(digits) \/ Overflows(significand, digits[k])
    THEN [significand |-> significand, exponent |-> exponent]
    ELSE DecimalPart(digits, k + 1, Push(significand, digits[k]), exponent - 1)

(* Natural numbers of any size, for the arithmetic of f64: the digits of the   *)
(* number in base 2^15, the lowest first, the highest not 0; <<>> is zero.    *)
(* What runs over the digits or repeats a step takes the first half and then  *)
(* the second, so that the depth of evaluation stays small.                   *)
Norm(a) ==
    IF \A i \in DOMAIN a : a[i] = 0 THEN <<>>
    ELSE SubSeq(a, 1, CHOOSE i \in DOMAIN a : a[i] # 0 /\ \A j \in DOMAIN a : j > i => a[j] = 0)

\* -1, 0 or 1 as a is below, equal to or above b
BigCmp(a, b) ==
    IF Len(a) < Len(b) THEN 0 - 1
    ELSE IF Len(a) > Len(b) THEN 1
    ELSE IF a = b THEN 0
    ELSE Eval(CHOOSE i \in DOMAIN a : a[i] # b[i] /\ \A j \in DOMAIN a : j > i => a[j] = b[j],
              LAMBDA i : IF a[i] < b[i] THEN 0 - 1 ELSE 1)

\* digits lo..hi of a * c + carry and the carry out of them, for c up to 2^15
\* and carry below 2^15
RECURSIVE MulAddRange(_, _, _, _, _)
MulAddRange(a, c, lo, hi, carry) ==
    IF lo > hi THEN [digits |-> <<>>, carry |-> carry]
    ELSE IF lo = hi
    THEN [digits |-> <<(a[lo] * c + carry) % 32768>>, carry |-> (a[lo] * c + carry) \div 32768]
    ELSE Eval(MulAddRange(a, c, lo, (lo + hi) \div 2, carry), LAMBDA left :
         Eval(MulAddRange(a, c, ((lo + hi) \div 2) + 1, hi, left.carry), LAMBDA right :
             [digits |-> left.digits \o right.digits, carry |-> right.carry]))

\* a * c + d
MulSmallAdd(a, c, d) ==
    Eval(MulAddRange(a, c, 1, Len(a), d), LAMBDA r :
        Norm(IF r.carry = 0 THEN r.digits ELSE Append(r.digits, r.carry)))

\* digits lo..hi of a + b + carry and the carry out of them
RECURSIVE AddRange(_, _, _, _, _)
AddRange(a, b, lo, hi, carry) ==
    IF lo > hi THEN [digits |-> <<>>, carry |-> carry]
    ELSE IF lo = hi
    THEN Eval((IF lo <= Len(a) THEN a[lo] ELSE 0) + (IF lo <= Len(b) THEN b[lo] ELSE 0) + carry,
              LAMBDA t : [digits |-> <<t % 32768>>, carry |-> t \div 32768])
    ELSE Eval(AddRange(a, b, lo, (lo + hi) \div 2, carry), LAMBDA left :
         Eval(AddRange(a, b, ((lo + hi) \div 2) + 1, hi, left.carry), LAMBDA right :
             [digits |-> left.digits \o right.digits, carry |-> right.carry]))

BigAdd(a, b) ==
    Eval(AddRange(a, b, 1, IF Len(a) > Len(b) THEN Len(a) ELSE Len(b), 0), LAMBDA r :
        Norm(IF r.carry = 0 THEN r.digits ELSE Append(r.digits, r.carry)))

\* digits lo..hi of a - b - borrow and the borrow out of them
RECURSIVE SubRange(_, _, _, _, _)
SubRange(a, b, lo, hi, borrow) ==
    IF lo > hi THEN [digits |-> <<>>, borrow |-> borrow]
    ELSE IF lo = hi
    THEN Eval(a[lo] - (IF lo <= Len(b) THEN b[lo] ELSE 0) - borrow,
              LAMBDA t : [digits |-> <<(t + 32768) % 32768>>, borrow |-> IF t < 0 THEN 1 ELSE 0])
    ELSE Eval(SubRange(a, b, lo, (lo + hi) \div 2, borrow), LAMBDA left :
         Eval(SubRange(a, b, ((lo + hi) \div 2) + 1, hi, left.borrow), LAMBDA right :
             [digits |-> left.digits \o right.digits, borrow |-> right.borrow]))

\* a - b, for a not below b
BigSub(a, b) == Norm(SubRange(a, b, 1, Len(a), 0).digits)

\* a times the digits lo..hi of b at their places
RECURSIVE MulRange(_, _, _, _)
MulRange(a, b, lo, hi) ==
    IF lo = hi THEN [j \in 1..(lo - 1) |-> 0] \o MulSmallAdd(a, b[lo], 0)
    ELSE BigAdd(MulRange(a, b, lo, (lo + hi) \div 2), MulRange(a, b, ((lo + hi) \div 2) + 1, hi))

BigMul(a, b) == IF a = <<>> \/ b = <<>> THEN <<>> ELSE Norm(MulRange(a, b, 1, Len(b)))

Pow2 == <<1, 2, 4, 8, 16, 32, 64, 128, 256, 512, 1024, 2048, 4096, 8192, 16384, 32768>>

\* a * 2^t
Shl(a, t) ==
    IF a = <<>> THEN <<>>
    ELSE [j \in 1..(t \div 15) |-> 0] \o MulSmallAdd(a, Pow2[(t % 15) + 1], 0)

\* a div 2
Shr1(a) ==
    Norm([i \in DOMAIN a |-> (a[i] \div 2) + (IF i < Len(a) THEN (a[i + 1] % 2) * 16384 ELSE 0)])

IsOdd(a) == a # <<>> /\ a[1] % 2 = 1

\* the number of binary digits of a
BitLen(a) ==
    IF a = <<>> THEN 0
    ELSE 15 * (Len(a) - 1) + CHOOSE n \in 1..15 : Pow2[n] <= a[Len(a)] /\ a[Len(a)] < Pow2[n + 1]

\* one binary digit of a quotient: s.t is the divisor times a power of two and
\* s.n, what is left of the dividend, is below twice s.t
DivStep(s) ==
    IF BigCmp(s.n, s.t) >= 0
    THEN [n |-> BigSub(s.n, s.t), t |-> Shr1(s.t), q |-> MulSmallAdd(s.q, 2, 1)]
    ELSE [n |-> s.n, t |-> Shr1(s.t), q |-> MulSmallAdd(s.q, 2, 0)]

RECURSIVE DivSteps(_, _)
DivSteps(s, count) ==
    IF count = 0 THEN s
    ELSE IF count = 1 THEN Eval(s, DivStep)
    ELSE Eval(DivSteps(s, count \div 2), LAMBDA half : DivSteps(half, count - (count \div 2)))

\* n div d and n mod d, for n below d * 2^bits
BigDivMod(n, d, bits) ==
    Eval(DivSteps([n |-> n, t |-> Shl(d, bits - 1), q |-> <<>>], bits), LAMBDA s :
        [q |-> s.q, r |-> s.n])

RECURSIVE BigPow10(_)
BigPow10(k) ==
    IF k < 5 THEN <<(<<1, 10, 100, 1000, 10000>>)[k + 1]>>
    ELSE BigMul(BigPow10(k \div 2), BigPow10(k - (k \div 2)))

\* the number that decimal digits stand for
RECURSIVE BigOfDecimal(_)
BigOfDecimal(digits) ==
    IF Len(digits) <= 4 THEN Norm(<<NatOf(digits, 0)>>)
    ELSE MulSmallAdd(BigOfDecimal(SubSeq(digits, 1, Len(digits) - 4)), 10000,
                     NatOf(SubSeq(digits, Len(digits) - 3, Len(digits)), 0))

\* digits hi down to lo of the quotient of a by c, and the remainder, for c
\* up to 10000; rem is what the digits above hi have left
RECURSIVE DivSmallRange(_, _, _, _, _)
DivSmallRange(a, c, hi, lo, rem) ==
    IF hi < lo THEN [digits |-> <<>>, rem |-> rem]
    ELSE IF hi = lo
    THEN [digits |-> <<(rem * 32768 + a[hi]) \div c>>, rem |-> (rem * 32768 + a[hi]) % c]
    ELSE Eval(DivSmallRange(a, c, hi, ((lo + hi) \div 2) + 1, rem), LAMBDA upper :
         Eval(DivSmallRange(a, c, (lo + hi) \div 2, lo, upper.rem), LAMBDA lower :
             [digits |-> lower.digits \o upper.digits, rem |-> lower.rem]))

\* the decimal digits of a, <<>> for zero
RECURSIVE DecimalOfBig(_)
DecimalOfBig(a) ==
    IF a = <<>> THEN <<>>
    ELSE Eval(DivSmallRange(a, 10000, Len(a), 1, 0), LAMBDA d :
         Eval(Norm(d.digits), LAMBDA q :
             IF q = <<>> THEN WriteNat(d.rem)
             ELSE DecimalOfBig(q) \o Zeros(4 - Len(WriteNat(d.rem))) \o WriteNat(d.rem)))

(* An f64 that is not negative: zero, infinite, or m * 2^e with m below 2^53, *)
(* e from -1074 on, and m at least 2^52 unless e is -1074.                    *)
F64Zero == [is |-> "zero"]
F64Infinite == [is |-> "infinite"]
F64Finite(m, e) == [is |-> "finite", m |-> m, e |-> e]

\* q * 2^e, with sticky telling that something below the last digit of q was
\* left out, to the nearest f64, a tie to the even one; q has 56 binary
\* digits or more
RoundShifted(q, sticky, e) ==
    Eval(IF e + BitLen(q) - 53 > 0 - 1074 THEN e + BitLen(q) - 53 ELSE 0 - 1074, LAMBDA ef :
        IF ef - e > BitLen(q) + 1 THEN F64Zero
        ELSE Eval(BigDivMod(q, Shl(<<1>>, ef - e - 1), BitLen(q) + 1), LAMBDA low :
             Eval(Shr1(low.q), LAMBDA down :
             Eval(IF IsOdd(low.q) /\ (sticky \/ low.r # <<>> \/ IsOdd(down))
                  THEN BigAdd(down, <<1>>) ELSE down, LAMBDA m :
                 IF m = <<>> THEN F64Zero
                 ELSE IF BitLen(m) = 54
                 THEN (IF ef + 54 > 1024 THEN F64Infinite ELSE F64Finite(Shr1(m), ef + 1))
                 ELSE IF ef + BitLen(m) > 1024 THEN F64Infinite
                 ELSE F64Finite(m, ef)))))

\* n * 2^s / d to the nearest f64
RoundF64(n, d, s) ==
    IF n = <<>> THEN F64Zero
    ELSE Eval(56 - BitLen(n) + BitLen(d), LAMBDA t :
         Eval(IF t >= 0 THEN BigDivMod(Shl(n, t), d, 58) ELSE BigDivMod(n, Shl(d, 0 - t), 58),
              LAMBDA qr : RoundShifted(qr.q, qr.r # <<>>, s - t)))

\* `significand as f64`
F64OfU64(significand) == RoundF64(significand, <<1>>, 0)

\* POW10[k] of de.rs, the f64 literal 1e<k>
POW10(k) == RoundF64(BigPow10(k), <<1>>, 0)

F64Mul(f, g) ==
    IF f.is = "zero" \/ g.is = "zero" THEN F64Zero
    ELSE RoundF64(BigMul(f.m, g.m), <<1>>, f.e + g.e)

F64Div(f, g) == IF f.is = "zero" THEN F64Zero ELSE RoundF64(f.m, g.m, f.e - g.e)

\* the loop of de.rs f64_from_parts: f times or by POW10 of the exponent; an
\* exponent beyond the table is an error when it is positive, and else f is
\* divided by 1e308 until the exponent is in the table or f is zero
RECURSIVE Scaled(_, _)
Scaled(f, exponent) ==
    IF exponent >= 0 /\ exponent <= 308 THEN F64Mul(f, POW10(exponent))
    ELSE IF exponent < 0 /\ exponent >= 0 - 308 THEN F64Div(f, POW10(0 - exponent))
    ELSE IF f.is = "zero" THEN F64Zero
    ELSE IF exponent >= 0 THEN F64Infinite
    ELSE Eval(F64Div(f, POW10(308)), LAMBDA g : Scaled(g, exponent + 308))

\* decimal digits plus one
Increment(d) ==
    IF \A i \in DOMAIN d : d[i] = "9" THEN <<"1">> \o Zeros(Len(d))
    ELSE Eval(CHOOSE i \in DOMAIN d : d[i] # "9" /\ \A j \in DOMAIN d : j > i => d[j] = "9",
              LAMBDA i : SubSeq(d, 1, i - 1) \o <<CharOf(Code(d[i]) + 1)>> \o Zeros(Len(d) - i))

\* x * 2^e / 4 in units of 10^k: the digits of its whole part and whether
\* nothing is left over
InUnits(x, e, k) ==
    Eval(BigDivMod(Shl(BigMul(x, BigPow10(IF k < 0 THEN 0 - k ELSE 0)), IF e > 2 THEN e - 2 ELSE 0),
                   Shl(BigPow10(IF k > 0 THEN k ELSE 0), IF e < 2 THEN 2 - e ELSE 0), 72),
         LAMBDA qr : [digits |-> DecimalOfBig(qr.q), exact |-> qr.r = <<>>])

\* v with its last j digits made 0, and the next such number above it
RoundedDown(v, j) == StripLeadingZeros(SubSeq(v.digits, 1, Len(v.digits) - j) \o Zeros(j))
RoundedUp(v, j) == Increment(SubSeq(v.digits, 1, Len(v.digits) - j)) \o Zeros(j)

\* c lies between lo and hi; the ends count when closed
Within(c, lo, hi, closed) ==
    /\ DecLess(lo.digits, c) \/ (c = lo.digits /\ lo.exact /\ closed)
    /\ DecLess(c, hi.digits) \/ (c = hi.digits /\ (closed \/ ~hi.exact))

\* v is nearer to RoundedUp(v, j) than to RoundedDown(v, j), or as near and
\* the digit before the last j is odd
NearerUp(v, j) ==
    Eval(SubSeq(v.digits, 1, Len(v.digits) - j), LAMBDA head :
    Eval(SubSeq(v.digits, Len(v.digits) - j + 1, Len(v.digits)), LAMBDA rest :
        IF rest = <<>> THEN FALSE
        ELSE IF Head(rest) # "5" THEN Code(Head(rest)) > Code("5")
        ELSE IF StripLeadingZeros(Tail(rest)) # <<>> \/ ~v.exact THEN TRUE
        ELSE head # <<>> /\ (Code(head[Len(head)]) - 48) % 2 = 1))

\* ryu d2d, the shortest decimal of the f64 m * 2^e: the one with the fewest
\* digits among the decimals that are nearer to this f64 than to any other
\* (as near counts when m is even), and of those the nearest, a tie going to
\* the even one.  v, lo and hi are the f64 and the two ends in units of
\* 10^k, closed tells whether the ends count; j is the most digits that can
\* be left out.
ShortestIn(v, lo, hi, closed, k) ==
    Eval(CHOOSE j \in 0..Len(v.digits) :
            /\ Within(RoundedDown(v, j), lo, hi, closed) \/ Within(RoundedUp(v, j), lo, hi, closed)
            /\ \A i \in (j + 1)..Len(v.digits) :
                  ~(Within(RoundedDown(v, i), lo, hi, closed) \/ Within(RoundedUp(v, i), lo, hi, closed)),
         LAMBDA j :
    Eval(IF Within(RoundedUp(v, j), lo, hi, closed)
            /\ (NearerUp(v, j) \/ ~Within(RoundedDown(v, j), lo, hi, closed))
         THEN RoundedUp(v, j) ELSE RoundedDown(v, j), LAMBDA c :
        [digits |-> StripTrailingZeros(c), exp |-> k + Len(c) - Len(StripTrailingZeros(c))]))

Shortest(m, e) ==
    Eval((((BitLen(m) + e - 1) * 30103) \div 100000) - 19, LAMBDA k :
    Eval(InUnits(MulSmallAdd(m, 4, 0), e, k), LAMBDA v :
    Eval(InUnits(BigSub(MulSmallAdd(m, 4, 0),
                        IF BitLen(m) = 53 /\ m = Shl(<<1>>, 52) /\ e > 0 - 1074
                        THEN <<1>> ELSE <<2>>), e, k), LAMBDA lo :
    Eval(InUnits(MulSmallAdd(m, 4, 2), e, k), LAMBDA hi :
        ShortestIn(v, lo, hi, ~IsOdd(m), k)))))

\* de.rs f64_from_parts: the f64 of significand * 10^exponent as the code
\* works it out, an error when that is infinite ("number out of range").
\* The Float is named by its shortest decimal.
F64FromParts(positive, significand, exponent) ==
    Eval(Scaled(F64OfU64(BigOfDecimal(significand)), exponent), LAMBDA f :
        IF f.is = "infinite" THEN InvalidText
        ELSE IF f.is = "zero" THEN JNumber("Float", ~positive, <<"0">>, 0)
        ELSE Eval(Shortest(f.m, f.e), LAMBDA d : JNumber("Float", ~positive, d.digits, d.exp)))

\* de.rs parse_number on a number without fraction and exponent whose digits
\* fit a u64: PosInt; NegInt down to i64::MIN; -0 and what lies below
\* i64::MIN are the Float -(significand as f64)
IntegerNumber(positive, significand) ==
    IF positive
    THEN JNumber("PosInt", FALSE, IF significand = <<>> THEN <<"0">> ELSE significand, 0)
    ELSE IF significand = <<>> \/ DecLess(I64MinMagnitude, significand)
    THEN F64FromParts(FALSE, significand, 0)
    ELSE JNumber("NegInt", TRUE, significand, 0)

\* de.rs parse_exponent, parse_exponent_overflow: the digits of the exponent
\* are added to starting_exp or taken from it (saturating in i32); when they
\* overflow an i32 the number is out of range if the exponent is positive
\* and the significand is not zero, and is zero else
WithExponent(positive, significand, starting_exp, positive_exp, exp_digits) ==
    Eval(StripLeadingZeros(exp_digits), LAMBDA e :
        IF DecLess(I32Max, e)
        THEN (IF significand # <<>> /\ positive_exp THEN InvalidText
              ELSE JNumber("Float", ~positive, <<"0">>, 0))
        ELSE Eval(NatOf(e, 0), LAMBDA exp :
                 F64FromParts(positive, significand,
                     IF positive_exp
                     THEN (IF starting_exp > 0 /\ exp > 2147483647 - starting_exp
                           THEN 2147483647 ELSE starting_exp + exp)
                     ELSE (IF starting_exp < 0 /\ exp > 2147483647 + starting_exp
                           THEN 0 - 2147483647 ELSE starting_exp - exp))))

\* the value of a number whose grammar holds: text[i] is its first digit, int
\* the position after the digits before the point, frac the one after the
\* fraction (int when there is none), sign the one of the first digit of the
\* exponent and exp the one after the number (frac when there is no exponent)
NumberValue(text, positive, i, int, frac, sign, exp) ==
    Eval(IntegerPart(SubSeq(text, i, int - 1), 1, <<>>), LAMBDA ip :
    Eval(IF frac > int
         THEN DecimalPart(SubSeq(text, int + 1, frac - 1), 1, ip.significand, ip.exponent)
         ELSE ip, LAMBDA dp :
        IF exp > frac
        THEN WithExponent(positive, dp.significand, dp.exponent,
                          text[sign - 1] # "-", SubSeq(text, sign, exp - 1))
        ELSE IF frac > int \/ ip.exponent > 0
        THEN F64FromParts(positive, dp.significand, dp.exponent)
        ELSE IntegerNumber(positive, ip.significand)))

\* serde_json de::parse_integer, parse_decimal, parse_exponent, from the first
\* character of the number: an optional minus, then 0 or a digit 1-9 and more
\* digits (no digit may follow a leading 0), then an optional fraction of at
\* least one digit, then an optional exponent of at least one digit.
ParseNumber(text, i0) ==
    Eval(IF text[i0] = "-" THEN i0 + 1 ELSE i0, LAMBDA i :
    Eval(IF i > Len(text) \/ text[i] \notin Digits THEN 0
         ELSE IF text[i] = "0"
         THEN (IF i + 1 <= Len(text) /\ text[i + 1] \in Digits THEN 0 ELSE i + 1)
         ELSE SkipDigits(text, i), LAMBDA int :
    Eval(IF int = 0 THEN 0
         ELSE IF int <= Len(text) /\ text[int] = "."
         THEN Eval(SkipDigits(text, int + 1), LAMBDA d : IF d = int + 1 THEN 0 ELSE d)
         ELSE int, LAMBDA frac :
    Eval(IF frac # 0 /\ frac + 1 <= Len(text) /\ text[frac + 1] \in {"+", "-"}
         THEN frac + 2 ELSE frac + 1, LAMBDA sign :
    Eval(IF frac = 0 THEN 0
         ELSE IF frac <= Len(text) /\ text[frac] \in {"e", "E"}
         THEN Eval(SkipDigits(text, sign), LAMBDA d : IF d = sign THEN 0 ELSE d)
         ELSE frac, LAMBDA exp :
        IF exp = 0 THEN Fail
        ELSE Eval(NumberValue(text, text[i0] # "-", i, int, frac, sign, exp), LAMBDA v :
                 IF v.t = "invalid" THEN Fail ELSE Parsed(v, exp)))))))

\* serde_json de.rs, remaining_depth of a Deserializer: an array or an
\* object may be opened within at most RecursionLimit - 1 others
RecursionLimit == 128

\* remaining_depth is the number of arrays and objects that may still be
\* opened, one above the other, less one (check_recursion! of de.rs)
RECURSIVE ParseValue(_, _, _)
RECURSIVE ParseElems(_, _, _, _)
RECURSIVE ParseMembers(_, _, _, _)
ParseValue(text, i0, remaining_depth) ==
    Eval(SkipWs(text, i0), LAMBDA i :
        IF i > Len(text) THEN Fail
        ELSE CASE text[i] = "\"" -> ParseChars(text, i + 1, <<>>)
               [] text[i] = "["  ->
                     IF remaining_depth - 1 = 0 THEN Fail
                     ELSE Eval(SkipWs(text, i + 1), LAMBDA j :
                              IF j <= Len(text) /\ text[j] = "]" THEN Parsed(JArr(<<>>), j + 1)
                              ELSE ParseElems(text, j, <<>>, remaining_depth - 1))
               [] text[i] = "{"  ->
                     IF remaining_depth - 1 = 0 THEN Fail
                     ELSE Eval(SkipWs(text, i + 1), LAMBDA j :
                              IF j <= Len(text) /\ text[j] = "}" THEN Parsed(JObj(<<>>), j + 1)
                              ELSE ParseMembers(text, j, <<>>, remaining_depth - 1))
               [] text[i] = "n" -> ParseLiteral(text, i, <<"n", "u", "l", "l">>, JNull)
               [] text[i] = "t" -> ParseLiteral(text, i, <<"t", "r", "u", "e">>, JBool(TRUE))
               [] text[i] = "f" -> ParseLiteral(text, i, <<"f", "a", "l", "s", "e">>, JBool(FALSE))
               [] text[i] \in Digits \cup {"-"} -> ParseNumber(text, i)
               [] OTHER -> Fail)

\* the elements of an array, from the first one; acc holds those read
ParseElems(text, i, acc, remaining_depth) ==
    Eval(ParseValue(text, i, remaining_depth), LAMBDA v :
        IF ~v.ok THEN Fail
        ELSE Eval(SkipWs(text, v.pos), LAMBDA j :
                 IF j > Len(text) THEN Fail
                 ELSE IF text[j] = ","
                 THEN ParseElems(text, j + 1, Append(acc, v.val), remaining_depth)
                 ELSE IF text[j] = "]" THEN Parsed(JArr(Append(acc, v.val)), j + 1)
                 ELSE Fail))

\* the members of an object, from the first one: a string, a colon, a value.
\* A key that comes again replaces the value read before (Map::insert).
ParseMembers(text, i0, acc, remaining_depth) ==
    Eval(SkipWs(text, i0), LAMBDA i :
        IF i > Len(text) \/ text[i] # "\"" THEN Fail
        ELSE Eval(ParseChars(text, i + 1, <<>>), LAMBDA k :
        IF ~k.ok THEN Fail
        ELSE Eval(SkipWs(text, k.pos), LAMBDA c :
        IF c > Len(text) \/ text[c] # ":" THEN Fail
        ELSE Eval(ParseValue(text, c + 1, remaining_depth), LAMBDA v :
        IF ~v.ok THEN Fail
        ELSE Eval(SkipWs(text, v.pos), LAMBDA j :
        IF j > Len(text) \/ text[j] \notin {",", "}"} THEN Fail
        ELSE Eval(TextMapInsert(acc, Entry(k.val.s, v.val)), LAMBDA map :
        IF text[j] = "," THEN ParseMembers(text, j + 1, map, remaining_depth)
        ELSE Parsed(JObj(map), j + 1)))))))

\* serde_json::from_str (pkg_mgmt.rs:93): one value, then nothing but whitespace
FromStr(text) ==
    Eval(ParseValue(text, 1, RecursionLimit), LAMBDA v :
        IF v.ok /\ SkipWs(text, v.pos) > Len(text) THEN v.val ELSE InvalidText)

\* the load step of install_packages (pkg_mgmt.rs:90-96)
LoadPackageListMap(text) ==
    Eval(FromStr(text), LAMBDA package_list_json :
        IF package_list_json.t = "invalid"
        THEN [ok |-> FALSE, err |-> "Failed to parse package_list.json"]
        ELSE IF package_list_json.t # "object"
        THEN [ok |-> FALSE, err |-> "package_list.json is not a valid JSON object"]
        ELSE [ok |-> TRUE, map |-> package_list_json.entries])

\* keys and package names of the catalogs written and read back
TextKeys == {<<"a", "p", "t">>, <<"s", "n", "a", "p">>}
TextNames ==
    {<<"v", "i", "m">>, <<"a", "\"", "b">>, <<"c", "\\", "n">>, <<"\n", "\f", "U+0001", "U+00E9">>}

\* arrays of up to n names
TextArrays(n) == {JArr(a) : a \in SeqsUpTo({JStr(name) : name \in TextNames}, n)}

\* catalogs of no, one or two managers: up to MaxNames names under the first
\* manager and at most one name under the second
TextCatalogs ==
    {<<>>}
    \cup {<<[key |-> k, val |-> v]>> : k \in TextKeys, v \in TextArrays(MaxNames)}
    \cup {<<[key |-> ks[1], val |-> v], [key |-> ks[2], val |-> w]>> :
              ks \in {x \in TextKeys \X TextKeys : x[1] # x[2]},
              v \in TextArrays(MaxNames), w \in TextArrays(1)}

\* the file SysBackup/package_list.json holding a text
TextFile(text) == [t |-> "text", text |-> text]

\* what a failed write_all (pkg_mgmt.rs:82) may leave of a text: File::create
\* has emptied the file, and any part of the text short of all of it was
\* written
CutOff(text) == {SubSeq(text, 1, n) : n \in 0..(Len(text) - 1)}

\* a character that takes more than one byte in UTF-8
MultiByte(c) == Code(c) > 127

\* the files a failed write_all may leave: the text cut off between two
\* characters, or cut within a character of several bytes, and then the file
\* holds no UTF-8 and cannot be read as a text
CutOffFiles(text) ==
    {TextFile(t) : t \in CutOff(text)}
    \cup (IF \E i \in DOMAIN text : MultiByte(text[i]) THEN {Unreadable} ELSE {})

\* save_package_list (pkg_mgmt.rs:74-85) on the Output that combine_json_outputs
\* makes of a catalog (pkg_mgmt.rs:63-71).  io is what the file system does:
\* "dir_err" when create_dir_all fails (line 79), "create_err" when
\* File::create fails (line 81), "write_err" when write_all fails (line 82);
\* exponent_plus is the build's way of writing a float.
SavePackageList ==
    /\ call.fn = "save_load"
    /\ ret.st = "none"
    /\ \E exponent_plus \in BOOLEAN :
          LET json_str == ToStringPretty(JObj(TextMapExtend(<<>>, call.catalog)), exponent_plus)
          IN  \E io \in {"ok", "dir_err", "create_err", "write_err"} :
                 /\ IF io = "ok"
                    THEN /\ file' = TextFile(json_str)
                         /\ ret' = [st |-> "saved", text |-> json_str]
                    ELSE IF io = "write_err"
                    THEN /\ file' \in CutOffFiles(json_str)
                         /\ ret' = [st |-> "save_err", text |-> json_str]
                    ELSE /\ file' = file
                         /\ ret' = [st |-> "save_err", text |-> json_str]
    /\ UNCHANGED <<envVars, pc, op, result, runVars, listVars, call>>

\* package_menu "4" looks for the file (pkg_get.rs:52) and install_packages
\* reads it (pkg_mgmt.rs:90-96)
LoadPackageList ==
    /\ call.fn = "save_load"
    /\ ret.st \in {"saved", "save_err"}
    /\ ret' = [st |-> "loaded", saved |-> ret.st = "saved", text |-> ret.text,
               loaded |-> CASE file.t = "nofile" ->
                                  [ok |-> FALSE, err |-> "package_list.json not found"]
                            [] file.t = "unreadable" ->
                                  [ok |-> FALSE, err |-> "Failed to read package_list.json"]
                            [] file.t = "text" -> LoadPackageListMap(file.text)]
    /\ UNCHANGED <<file, envVars, pc, op, result, runVars, listVars, call>>


(***************************************************************************)
(* A catalog written by save_package_list and read back by the load step.  *)
(***************************************************************************)
InitText ==
    /\ file = NoFile
    /\ probe = [m \in ManagerIds |-> "spawn_err"]
    /\ missingCheck = {}
    /\ preserve_order \in BOOLEAN
    /\ installed = {}
    /\ envChanged = FALSE
    /\ InitRun
    /\ call \in [fn : {"save_load"}, catalog : TextCatalogs]
    /\ ret = [st |-> "none"]

NextText ==
    \/ SavePackageList
    \/ LoadPackageList

SpecText == InitText /\ [][NextText]_vars

(***************************************************************************)
(* install_single_package applied to a manager, a package and an outcome   *)
(* of the command it spawns.                                               *)
(***************************************************************************)
\* pkg_mgmt.rs:202-229: the command is built; an unknown manager returns false at once
InstallBuild ==
    /\ call.fn = "install_single_package"
    /\ ret.st = "none"
    /\ LET argv == InstallCommand(call.manager, call.package)
       IN  ret' = IF argv = <<>>
                  THEN [st |-> "returned", argv |-> argv, spawned |-> FALSE,
                        val |-> InstallSinglePackage(call.manager, call.package, call.out)]
                  ELSE [st |-> "built", argv |-> argv]
    /\ UNCHANGED <<file, envVars, pc, op, result, runVars, listVars, call>>

\* pkg_mgmt.rs:231-250: the command is run and its status decides the result
InstallRun ==
    /\ call.fn = "install_single_package"
    /\ ret.st = "built"
    /\ ret' = [st |-> "returned", argv |-> ret.argv, spawned |-> call.out # "spawn_err",
               val |-> InstallSinglePackage(call.manager, call.package, call.out)]
    /\ UNCHANGED <<file, envVars, pc, op, result, runVars, listVars, call>>

InitInstaller ==
    /\ file = NoFile
    /\ probe = [m \in ManagerIds |-> "spawn_err"]
    /\ missingCheck = {}
    /\ preserve_order \in BOOLEAN
    /\ installed = {}
    /\ envChanged = FALSE
    /\ InitRun
    /\ call \in [fn : {"install_single_package"}, manager : ManagerIds \cup {UnknownKey},
                 package : PackageNames, out : Outcomes]
    /\ ret = [st |-> "none"]

NextInstaller ==
    \/ InstallBuild
    \/ InstallRun

SpecInstaller == InitInstaller /\ [][NextInstaller]_vars

(***************************************************************************)
(* The line rules of the Listers, pkg_get.rs get_<manager>_packages.       *)
(* The stdout of a list command is a text; lines and names are sequences   *)
(* of characters.                                                          *)
(***************************************************************************)
\* at most MaxLines lines in the stdout of a list command
MaxLines == 2

\* char::is_whitespace, used by str::trim and str::split_whitespace: the
\* characters with the Unicode property White_Space, which are more than the
\* four of JSON
White_Space ==
    {"\t", "\n", "U+000B", "\f", "\r", " ", "U+0085", "U+00A0", "U+1680",
     "U+2000", "U+2001", "U+2002", "U+2003", "U+2004", "U+2005", "U+2006", "U+2007",
     "U+2008", "U+2009", "U+200A", "U+2028", "U+2029", "U+202F", "U+205F", "U+3000"}

\* a line loses the "\r" that stood before its "\n"
StripCr(line) ==
    IF line # <<>> /\ line[Len(line)] = "\r" THEN SubSeq(line, 1, Len(line) - 1) ELSE line

\* str::lines: the text is cut after each "\n"; what follows the last "\n" is a
\* line only when it is not empty
RECURSIVE LinesFrom(_, _, _)
LinesFrom(text, i, cur) ==
    IF i > Len(text) THEN (IF cur = <<>> THEN <<>> ELSE <<cur>>)
    ELSE IF text[i] = "\n" THEN <<StripCr(cur)>> \o LinesFrom(text, i + 1, <<>>)
    ELSE LinesFrom(text, i + 1, Append(cur, text[i]))

Lines(text) == LinesFrom(text, 1, <<>>)

\* line.contains(c)
Contains(line, c) == \E i \in DOMAIN line : line[i] = c

\* line.split(c).next(): the part before the first c, the whole line without a c
SplitFirst(line, c) ==
    LET at == {i \in DOMAIN line : line[i] = c}
    IN  IF at = {} THEN line
        ELSE SubSeq(line, 1, (CHOOSE i \in at : \A j \in at : i <= j) - 1)

\* pkg_version.rsplit_once(c): <<the part before the last c>>, <<>> without a c
RSplitOnce(token, c) ==
    LET at == {i \in DOMAIN token : token[i] = c}
    IN  IF at = {} THEN <<>>
        ELSE <<SubSeq(token, 1, (CHOOSE i \in at : \A j \in at : i >= j) - 1)>>

RECURSIVE TrimStart(_)
TrimStart(s) ==
    IF s # <<>> /\ Head(s) \in White_Space THEN TrimStart(Tail(s)) ELSE s

RECURSIVE TrimEnd(_)
TrimEnd(s) ==
    IF s # <<>> /\ s[Len(s)] \in White_Space THEN TrimEnd(SubSeq(s, 1, Len(s) - 1)) ELSE s

\* str::trim
Trim(s) == TrimEnd(TrimStart(s))

\* line.split_whitespace(): the maximal runs of characters that are not whitespace
RECURSIVE TokensFrom(_, _, _)
TokensFrom(line, i, cur) ==
    IF i > Len(line) THEN (IF cur = <<>> THEN <<>> ELSE <<cur>>)
    ELSE IF line[i] \in White_Space
         THEN (IF cur = <<>> THEN <<>> ELSE <<cur>>) \o TokensFrom(line, i + 1, <<>>)
         ELSE TokensFrom(line, i + 1, Append(cur, line[i]))

SplitWhitespace(line) == TokensFrom(line, 1, <<>>)

\* Each rule gives the names one line contributes: <<>> or one name.
\* pkg_get.rs:132-135
AptLine(line) ==
    IF ~Contains(line, "/") THEN <<>>
    ELSE LET s == Trim(SplitFirst(line, "/"))
         IN  IF s = <<>> THEN <<>> ELSE <<s>>

\* pkg_get.rs:153-156
YumDnfLine(line) ==
    IF ~Contains(line, ".") THEN <<>>
    ELSE LET s == Trim(SplitFirst(line, "."))
         IN  IF s = <<>> THEN <<>> ELSE <<s>>

\* pkg_get.rs:173-174
PortageLine(line) == IF line = <<>> THEN <<>> ELSE <<line>>

\* every token of the line is taken as a name
PacmanLineAllTokens(line) == SplitWhitespace(line)

\* pkg_get.rs:191-192
PacmanLine(line) ==
    LET tokens == SplitWhitespace(line)
    IN  IF tokens = <<>> THEN <<>> ELSE <<tokens[1]>>

\* pkg_get.rs:210-211: split('\t').next() is Some for every line
FlatpakLine(line) == <<SplitFirst(line, "\t")>>

\* pkg_get.rs:229
SnapLine(line) ==
    LET tokens == SplitWhitespace(line)
    IN  IF tokens = <<>> THEN <<>> ELSE <<tokens[1]>>

\* pkg_get.rs:247-253
XbpsLine(line) ==
    LET tokens == SplitWhitespace(line)
    IN  IF Len(tokens) < 2 THEN <<>> ELSE RSplitOnce(tokens[2], "-")

LineNames(manager, line) ==
    CASE manager = "apt"     -> AptLine(line)
      [] manager = "yum_dnf" -> YumDnfLine(line)
      [] manager = "portage" -> PortageLine(line)
      [] manager = "pacman"  -> PacmanLine(line)
      [] manager = "flatpak" -> FlatpakLine(line)
      [] manager = "snap"    -> SnapLine(line)
      [] manager = "xbps"    -> XbpsLine(line)

\* the iterator chain over the lines, collected in order
RECURSIVE Collect(_, _)
Collect(manager, lines) ==
    IF lines = <<>> THEN <<>>
    ELSE LineNames(manager, Head(lines)) \o Collect(manager, Tail(lines))

\* the names collected from the lines; snap skips its first line (pkg_get.rs:228)
PackagesOfLines(manager, lines) ==
    IF manager = "snap"
    THEN (IF lines = <<>> THEN <<>> ELSE Collect(manager, Tail(lines)))
    ELSE Collect(manager, lines)

\* `packages` of get_<manager>_packages
Packages(manager, stdout) == PackagesOfLines(manager, Lines(stdout))

\* get_<manager>_packages on what its list command did: not spawned, or
\* spawned with an exit status and a stdout
GetPackages(manager, o) ==
    Lister(manager, [spawned |-> o.spawned, status |-> o.status,
                     names |-> IF o.spawned THEN Packages(manager, o.stdout) ELSE <<>>])

\* lines a list command may print
SampleLines ==
    { <<>>, <<" ">>, <<"a", "/", "b">>, <<"/", "a">>, <<"c", ".", "d">>, <<"e", "\t", "f">>,
      <<"g", " ", "h">>, <<"i", " ", "k", "-", "1">>, <<"i", " ", "-", "1">>, <<"m", "\r">>,
      <<"\f">>, <<"n", "U+000B", "o">> }

\* the text of the lines, each ended by "\n", the last one only when terminated
RECURSIVE Unlines(_, _)
Unlines(lines, terminated) ==
    IF lines = <<>> THEN <<>>
    ELSE Head(lines)
         \o (IF Len(lines) > 1 \/ terminated THEN <<"\n">> ELSE <<>>)
         \o Unlines(Tail(lines), terminated)

Stdouts == {Unlines(ls, tm) : ls \in SeqsUpTo(SampleLines, MaxLines), tm \in BOOLEAN}

ListCommandOutcomes ==
    {[spawned |-> FALSE, status |-> "none", stdout |-> <<>>]} \cup
    [spawned : {TRUE}, status : {"ok", "nonzero"}, stdout : Stdouts]

\* one Lister is run
ListerRun ==
    /\ call.fn = "lister"
    /\ ret.st = "none"
    /\ ret' = [st |-> "returned", output |-> GetPackages(call.manager, call.o)]
    /\ UNCHANGED <<file, envVars, pc, op, result, runVars, listVars, call>>

InitLister ==
    /\ file = NoFile
    /\ probe = [m \in ManagerIds |-> "spawn_err"]
    /\ missingCheck = {}
    /\ preserve_order \in BOOLEAN
    /\ installed = {}
    /\ envChanged = FALSE
    /\ InitRun
    /\ call \in [fn : {"lister"}, manager : ManagerIds, o : ListCommandOutcomes]
    /\ ret = [st |-> "none"]

NextLister == ListerRun

SpecLister == InitLister /\ [][NextLister]_vars

(***************************************************************************)
(* Vocabulary of the properties.                                           *)
(***************************************************************************)
InSeq(x, s) == \E i \in DOMAIN s : s[i] = x

\* install_packages has returned, Ok or Err, after it loaded its catalog
RunEnded == pc = "menu" /\ op = "install" /\ result \in {"ok", "spawn error"}

\* install_packages has returned Ok(()): the summary was printed
RunOk == pc = "menu" /\ op = "install" /\ result = "ok"

\* a Reconciler run is past its detection
RunDetected ==
    op = "install" /\ (pc \in {"checking", "installing", "reporting"} \/ (pc = "menu" /\ log # <<>>) \/ RunEnded)

\* positions <<k, p>> of the package names of the loaded catalog
NamePositions ==
    {x \in (DOMAIN package_list_map) \X (1..MaxSize) :
        /\ package_list_map[x[1]].val.t = "array"
        /\ x[2] \in DOMAIN package_list_map[x[1]].val.a
        /\ package_list_map[x[1]].val.a[x[2]].t = "string"}

KeyAt(x) == package_list_map[x[1]].key
NameAt(x) == package_list_map[x[1]].val.a[x[2]].s

\* the manager is in the AvailabilityMap and mapped to true
MarkedAvailable(m) == m \in DOMAIN detected_managers_map /\ detected_managers_map[m] = TRUE

AvailablePositions == {x \in NamePositions : MarkedAvailable(KeyAt(x))}
SkippedPositions == {x \in NamePositions : ~MarkedAvailable(KeyAt(x))}

B2N(b) == IF b THEN 1 ELSE 0

\* in how many of the three report sequences the string occurs
SequencesHolding(x) ==
    B2N(InSeq(x, already_installed)) + B2N(InSeq(x, newly_installed))
        + B2N(InSeq(x, failed_to_install))

CheckedInstalled(e) == e.kind = "check" /\ e.out = "ok"
InstallSucceeded(e) == e.kind = "install" /\ e.out = "ok"
InstallFailed(e) == e.kind = "install" /\ e.out # "ok"

Outcome(e) ==
    IF CheckedInstalled(e) THEN "already"
    ELSE IF InstallSucceeded(e) THEN "newly"
    ELSE IF InstallFailed(e) THEN "failed"
    ELSE "none"

\* the formatted pairs of the log entries with the given outcome, in order
RECURSIVE Formatted(_, _)
Formatted(entries, outcome) ==
    IF entries = <<>> THEN <<>>
    ELSE (IF Outcome(Head(entries)) = outcome
          THEN <<Format(Head(entries).package, Head(entries).manager)>>
          ELSE <<>>) \o Formatted(Tail(entries), outcome)

(***************************************************************************)
(* Properties.                                                             *)
(***************************************************************************)
\* C1: after install_packages finishes, every pair of the catalog whose
\* manager is available is in exactly one of AlreadyInstalled, NewlyInstalled
\* and Failed, and no pair is in two of them.
C1_ExactlyOneSequence ==
    RunEnded =>
        /\ \A x \in AvailablePositions : SequencesHolding(Format(NameAt(x), KeyAt(x))) = 1
        /\ Range(already_installed) \cap Range(newly_installed) = {}
        /\ Range(already_installed) \cap Range(failed_to_install) = {}
        /\ Range(newly_installed) \cap Range(failed_to_install) = {}

\* C2: for every run, |AlreadyInstalled| + |NewlyInstalled| + |Failed| is the
\* number of catalog entries whose manager is marked available.
C2_PartitionCompleteness ==
    RunEnded =>
        Len(already_installed) + Len(newly_installed) + Len(failed_to_install)
            = Cardinality(AvailablePositions)

\* C3: an existence query that cannot be spawned counts as "not installed":
\* the run goes on with the install of that pair and is not aborted.
C3_CheckSpawnFailureIsFalse ==
    \A i \in DOMAIN log :
        (log[i].kind = "check" /\ log[i].out = "spawn_err") =>
            IF i < Len(log)
            THEN /\ log[i + 1].kind = "install"
                 /\ log[i + 1].k = log[i].k
                 /\ log[i + 1].p = log[i].p
            ELSE pc = "installing"

\* C4: no package of a catalog key whose manager is absent from the
\* AvailabilityMap or mapped to false is in AlreadyInstalled, NewlyInstalled
\* or Failed.
C4_SkippedNeverReported ==
    RunDetected =>
        \A x \in SkippedPositions : SequencesHolding(Format(NameAt(x), KeyAt(x))) = 0

C4_Witness ==
    /\ RunOk
    /\ SkippedPositions # {}
    /\ AvailablePositions # {}
    /\ \E x \in SkippedPositions : \E y \in AvailablePositions : NameAt(x) = NameAt(y)
    /\ failed_to_install # <<>>

\* C5: a pair is classified by its own outcomes: check true gives
\* AlreadyInstalled; check false and then a successful install gives
\* NewlyInstalled; check false and then a failing install gives Failed.
C5_ClassifiedByOwnOutcomes ==
        /\ already_installed = Formatted(log, "already")
        /\ newly_installed = Formatted(log, "newly")
        /\ failed_to_install = Formatted(log, "failed")
        /\ \A i \in DOMAIN log :
              log[i].kind = "install" =>
                  /\ i > 1
                  /\ log[i - 1].kind = "check"
                  /\ log[i - 1].out = "nonzero"
                  /\ log[i - 1].k = log[i].k
                  /\ log[i - 1].p = log[i].p

C5_Witness ==
    /\ RunOk
    /\ already_installed # <<>>
    /\ newly_installed # <<>>
    /\ failed_to_install # <<>>

\* C6: a failing install is recorded as Failed and the loops go on with the
\* next pair; it neither aborts the run nor undoes an earlier install.
C6_InstallFailureIsolated ==
        \A i \in DOMAIN log :
            InstallFailed(log[i]) =>
                /\ InSeq(Format(log[i].package, log[i].manager), failed_to_install)
                /\ LET nxt == Seek(package_list_map, detected_managers_map, log[i].k, log[i].p + 1)
                   IN  IF i < Len(log)
                       THEN log[i + 1].kind = "check" /\ <<log[i + 1].k, log[i + 1].p>> = nxt
                       ELSE /\ <<ki, pi>> = nxt
                            /\ pc \in {"checking", "reporting"} \/ RunOk
                /\ \A j \in 1..(i - 1) :
                      InstallSucceeded(log[j]) =>
                          /\ InSeq(Format(log[j].package, log[j].manager), newly_installed)
                          /\ pc # "menu" => <<log[j].manager, log[j].package>> \in installed

C6_Witness ==
    /\ RunOk
    /\ \E i \in DOMAIN log :
          /\ InstallFailed(log[i])
          /\ i < Len(log)
          /\ \E j \in 1..(i - 1) : InstallSucceeded(log[j])

\* C7: a second run on the same catalog in an unchanged environment has every
\* pair that the first run installed in AlreadyInstalled, and spawns no
\* install for it.
C7_RerunIdempotent ==
    (RunEnded /\ runs >= 2 /\ ~changedBetween) =>
        \A i \in DOMAIN prevNewly :
            /\ InSeq(prevNewly[i], already_installed)
            /\ ~\E j \in DOMAIN log :
                  /\ log[j].kind = "install"
                  /\ Format(log[j].package, log[j].manager) = prevNewly[i]

C7_Witness ==
    /\ RunOk
    /\ runs = 2
    /\ ~changedBetween
    /\ prevNewly # <<>>
    /\ failed_to_install # <<>>

\* C8: detection gives an entry for each of the seven managers, true exactly
\* when the probe was spawned and exited with success, and never an error.
C8_DetectionTotal ==
    op = "detect" =>
        /\ result = "ok"
        /\ DOMAIN detected_managers_map
              = {"apt", "yum_dnf", "portage", "pacman", "flatpak", "snap", "xbps"}
        /\ \A m \in DOMAIN detected_managers_map :
              detected_managers_map[m] = (probe[m] = "ok")

C8_Witness ==
    /\ op = "detect"
    /\ probe["portage"] = "spawn_err"
    /\ detected_managers_map["portage"] = FALSE
    /\ probe["snap"] = "nonzero"
    /\ probe["xbps"] = "ok"

OutputKeys == IF output.ok /\ output.stdout.t = "object"
              THEN {output.stdout.entries[i].key : i \in DOMAIN output.stdout.entries}
              ELSE {}

\* C9: the catalog of list_all_packages has no key of a manager the
\* AvailabilityMap of that run marked unavailable, and no Lister is run for
\* such a manager.
C9_NoUnavailableManagerListed ==
    op \in {"list", "save"} =>
        \A m \in ManagerIds :
            ~MarkedAvailable(m) => (m \notin OutputKeys /\ m \notin listed)

C9_Witness ==
    /\ op = "list"
    /\ output.ok
    /\ MarkedAvailable("flatpak")
    /\ probe["apt"] = "nonzero"
    /\ "flatpak" \in OutputKeys

\* a Catalog: an object, every key a ManagerId, every value an array of strings
IsCatalog(v) ==
    /\ v.t = "object"
    /\ \A i \in DOMAIN v.entries :
          /\ v.entries[i].key \in ManagerIds
          /\ v.entries[i].val.t = "array"
          /\ \A j \in DOMAIN v.entries[i].val.a : v.entries[i].val.a[j].t = "string"

\* C10: list_all_packages returns the "nothing to check" marker exactly when
\* no manager is available; with a manager available and the listing
\* succeeding it returns a Catalog, which is never the marker.
C10_MarkerIffNoManager ==
    op \in {"list", "save"} =>
        /\ (output.ok /\ output.stdout = MarkerDocument)
              <=> (\A m \in ManagerIds : ~MarkedAvailable(m))
        /\ (output.ok /\ \E m \in ManagerIds : MarkedAvailable(m))
              => (IsCatalog(output.stdout) /\ ~IsCatalog(MarkerDocument))

C10_Witness ==
    /\ op = "list"
    /\ \A m \in ManagerIds : ~MarkedAvailable(m)
    /\ output.ok
    /\ output.stdout = MarkerDocument

\* C11: a catalog written by save_package_list and read back by the load step
\* of install_packages is loaded without error, with the same manager keys
\* and, under each key, the same package names in the same order.
C11_RoundTrip ==
    (ret.st = "loaded" /\ ret.saved) =>
        /\ ret.loaded.ok
        /\ {ret.loaded.map[j].key : j \in DOMAIN ret.loaded.map}
             = {call.catalog[i].key : i \in DOMAIN call.catalog}
        /\ \A i \in DOMAIN call.catalog : \A j \in DOMAIN ret.loaded.map :
              ret.loaded.map[j].key = call.catalog[i].key
                 => ret.loaded.map[j].val = call.catalog[i].val

\* a catalog of two managers was read back, one of them with two different
\* names of which one holds a quote
C11_Witness ==
    /\ ret.st = "loaded"
    /\ ret.saved
    /\ file = TextFile(ret.text)
    /\ Len(call.catalog) = 2
    /\ \E i \in DOMAIN call.catalog :
          /\ Len(call.catalog[i].val.a) = 2
          /\ call.catalog[i].val.a[1] # call.catalog[i].val.a[2]
          /\ \E p \in 1..2 : InSeq("\"", call.catalog[i].val.a[p].s)

\* C12: every document written by the save operation of the package menu is
\* a single JSON object in which every key is a ManagerId and every value is
\* an array of package-name strings, whatever the aggregation returned.
C12_SavedDocumentIsCatalog ==
    (op = "save" /\ result = "ok") => IsCatalog(file)

\* C13: when the list command of a manager whose Lister was invoked cannot be
\* spawned, list_all_packages returns an error and no Catalog: the listings
\* of the managers that succeeded are not returned as a partial result.
C13_ListerErrorAbortsAggregation ==
    (op \in {"list", "save"} /\ \E m \in listed : ~listOuts[m].spawned) =>
        /\ ~output.ok
        /\ output.stdout.t # "object"
        /\ result # "ok"

\* two Listers ran: the first listed a package, the list command of the
\* second could not be spawned
C13_Witness ==
    /\ op = "list"
    /\ listed = {"apt", "flatpak"}
    /\ listOuts["apt"].spawned
    /\ listOuts["apt"].count > 0
    /\ ~listOuts["flatpak"].spawned
    /\ ~output.ok

\* C14: on a loaded catalog document that is structurally malformed (top
\* level not an object, a manager's value not an array, or an array element
\* not a string) the Reconciler aborts with an error: it does not end with
\* its summary and it installs nothing of that document.
C14_MalformedCatalogAborts ==
    (op = "install" /\ Malformed(file)) =>
        /\ ~RunOk
        /\ \A i \in DOMAIN log : log[i].kind # "install"

\* C15: install_single_package returns a boolean, never an error, and the
\* boolean is true exactly when the install command was spawned and exited
\* with success; a spawn failure and a non-zero exit both give false.
C15_InstallTrueIffSpawnedAndSucceeded ==
    ret.st = "returned" =>
        /\ ret.val \in BOOLEAN
        /\ ret.val <=> (ret.spawned /\ call.out = "ok")
        /\ ret.spawned <=> (call.manager \in ManagerIds /\ call.out # "spawn_err")

\* an install command of a known manager could not be spawned
C15_Witness ==
    /\ ret.st = "returned"
    /\ call.manager = "pacman"
    /\ call.out = "spawn_err"
    /\ ret.argv # <<>>
    /\ ~ret.val

\* C16: for each of the seven managers the Installer builds the install
\* command of the subprocess table followed by the package, run through sudo
\* for every manager except flatpak.
C16_InstallCommandTable ==
    (ret.st \in {"built", "returned"} /\ call.manager \in ManagerIds) =>
        LET table ==
                CASE call.manager = "apt"     -> <<"apt", "install", "-y">>
                  [] call.manager = "yum_dnf" -> <<"dnf", "install", "-y">>
                  [] call.manager = "portage" -> <<"emerge">>
                  [] call.manager = "pacman"  -> <<"pacman", "-S", "--noconfirm">>
                  [] call.manager = "flatpak" -> <<"flatpak", "install", "-y">>
                  [] call.manager = "snap"    -> <<"snap", "install">>
                  [] call.manager = "xbps"    -> <<"xbps-install", "-S", "-y">>
        IN  ret.argv = (IF call.manager = "flatpak" THEN <<>> ELSE <<"sudo">>)
                       \o table \o <<call.package>>

\* the command of a flatpak install was built
C16_Witness ==
    /\ ret.st = "built"
    /\ call.manager = "flatpak"
    /\ ret.argv = <<"flatpak", "install", "-y", call.package>>

\* a Lister has returned
ListerReturned == call.fn = "lister" /\ ret.st = "returned"

\* the package names of the Output a Lister returned
ListerNames ==
    LET a == ret.output.stdout.entries[1].val.a
    IN  [j \in DOMAIN a |-> a[j].s]

\* C17: when the list command of a manager cannot be spawned, the Lister
\* returns an error that identifies the manager: no other manager's Lister
\* returns the same error for the same failure.
C17_SpawnErrorNamesManager ==
    (ListerReturned /\ ~call.o.spawned) =>
        /\ ~ret.output.ok
        /\ \A m \in ManagerIds \ {call.manager} : GetPackages(m, call.o) # ret.output

\* a line of nothing but whitespace
Blank(line) == \A i \in DOMAIN line : line[i] \in White_Space

\* the names a Lister extracts from the first k lines of a stdout
PrefixNames(manager, lines, k) == PackagesOfLines(manager, SubSeq(lines, 1, k))

\* C18: for every manager and every stdout of its list command, no name the
\* Lister produces is the empty string and no blank line adds a name.
C18_NoBlankLineNoEmptyName ==
    (ListerReturned /\ call.o.spawned) =>
        LET lines == Lines(call.o.stdout)
        IN  /\ \A j \in DOMAIN ListerNames : ListerNames[j] # <<>>
            /\ \A k \in DOMAIN lines :
                  Blank(lines[k]) =>
                      PrefixNames(call.manager, lines, k) = PrefixNames(call.manager, lines, k - 1)

\* the line has a character that is not whitespace before its first c
HasDelimitedName(line, c) ==
    \E j \in DOMAIN line :
        /\ line[j] \notin White_Space
        /\ \A h \in 1..j : line[h] # c
        /\ \E i \in DOMAIN line : i > j /\ line[i] = c

\* line k of the stdout matches the line rule of the manager
Matches(manager, lines, k) ==
    CASE manager \in {"apt"}     -> HasDelimitedName(lines[k], "/")
      [] manager \in {"yum_dnf"} -> HasDelimitedName(lines[k], ".")
      [] manager = "portage"     -> lines[k] # <<>>
      [] manager = "pacman"      -> ~Blank(lines[k])
      [] manager = "flatpak"     -> TRUE
      [] manager = "snap"        -> k > 1 /\ ~Blank(lines[k])
      [] manager = "xbps"        -> /\ Len(SplitWhitespace(lines[k])) >= 2
                                    /\ Contains(SplitWhitespace(lines[k])[2], "-")

\* C19: once its list command was spawned a Lister returns Ok whatever the
\* stdout and the exit status; going through the lines in order, a line that
\* matches the manager's rule appends exactly one name to the names of the
\* lines before it, and a line that does not match leaves them as they are.
C19_ListerTotalOrdered ==
    (ListerReturned /\ call.o.spawned) =>
        LET lines == Lines(call.o.stdout)
        IN  /\ ret.output.ok
            /\ ret.output.status = call.o.status
            /\ ListerNames = PrefixNames(call.manager, lines, Len(lines))
            /\ PrefixNames(call.manager, lines, 0) = <<>>
            /\ \A k \in DOMAIN lines :
                  LET before == PrefixNames(call.manager, lines, k - 1)
                      upto == PrefixNames(call.manager, lines, k)
                  IN  IF Matches(call.manager, lines, k)
                      THEN Len(upto) = Len(before) + 1 /\ SubSeq(upto, 1, Len(before)) = before
                      ELSE upto = before

\* a list command that exited non-zero printed a line that matches the rule
\* and then a line that does not
C19_Witness ==
    /\ ListerReturned
    /\ call.manager = "xbps"
    /\ call.o.spawned
    /\ call.o.status = "nonzero"
    /\ Lines(call.o.stdout) = << <<"i", " ", "k", "-", "1">>, <<"g", " ", "h">> >>
    /\ ListerNames = << <<"k">> >>

\* C20: a run of the Reconciler that has loaded its catalog goes through
\* Detecting, Checking and Installing to Reporting and only then is Done:
\* whatever the probe, check and install commands did, a run that has
\* returned has produced its installation summary.
C20_RunReachesReporting ==
    (pc = "menu" /\ op = "install" /\ runs > 0 /\ file.t = "object") => result = "ok"

\* position <<k, p>> comes before <<l, q>> in the loops: an earlier key, or
\* the same key and an earlier element of its array
Before(x, y) == x[1] < y[1] \/ (x[1] = y[1] /\ x[2] < y[2])

\* the catalog positions of the log entries with the given outcome, in order
RECURSIVE PositionsOf(_, _)
PositionsOf(entries, outcome) ==
    IF entries = <<>> THEN <<>>
    ELSE (IF Outcome(Head(entries)) = outcome THEN <<<<Head(entries).k, Head(entries).p>>>> ELSE <<>>)
         \o PositionsOf(Tail(entries), outcome)

\* the report sequence holds the pairs at the given positions of the catalog
\* and those positions follow the order of the loops
InProcessingOrder(report, positions) ==
    /\ Len(report) = Len(positions)
    /\ \A i \in DOMAIN positions :
          /\ positions[i] \in NamePositions
          /\ report[i] = Format(NameAt(positions[i]), KeyAt(positions[i]))
    /\ \A i, j \in DOMAIN positions : i < j => Before(positions[i], positions[j])

\* C21: the commands of a run go through the catalog key by key and, under a
\* key, through its array in order: no command for a pair is spawned after a
\* command for a pair of a later key or a later element; and each report
\* sequence lists its pairs in that order.
C21_ManagerByManagerOrder ==
    /\ \A i, j \in DOMAIN log :
          i < j => \/ Before(<<log[i].k, log[i].p>>, <<log[j].k, log[j].p>>)
                   \/ /\ <<log[i].k, log[i].p>> = <<log[j].k, log[j].p>>
                      /\ log[i].kind = "check"
                      /\ log[j].kind = "install"
    /\ InProcessingOrder(already_installed, PositionsOf(log, "already"))
    /\ InProcessingOrder(newly_installed, PositionsOf(log, "newly"))
    /\ InProcessingOrder(failed_to_install, PositionsOf(log, "failed"))

\* a run over two keys, the first with two packages, installed a package of
\* each key and a second package of the first key
C21_Witness ==
    /\ RunOk
    /\ Len(newly_installed) >= 3
    /\ \E i \in DOMAIN log : \E j \in DOMAIN log :
          /\ InstallSucceeded(log[i])
          /\ InstallSucceeded(log[j])
          /\ log[i].k = 1 /\ log[i].p = 2
          /\ log[j].k = 2

\* the step leaves the loops at key `from` and enters key `to` or ends them:
\* every key passed over is unavailable in the map m, and the key entered is
\* available in it
DecidedBy(m, from, to) ==
    /\ \A k \in from..(to - 1) :
          ~(package_list_map[k].key \in DOMAIN m /\ m[package_list_map[k].key])
    /\ to <= Len(package_list_map) =>
          (package_list_map[to].key \in DOMAIN m /\ m[package_list_map[to].key])

\* C22: in a run the AvailabilityMap is captured once, in the detection that
\* comes before the first check or install, and no later step of the run
\* changes it; every decision to skip or to process a key is the one that
\* map gives, also after the availability of a manager has changed.
C22_SnapshotUsed ==
    [][/\ pc = "detecting" => (log = <<>> /\ log' = <<>>)
       /\ pc \in {"checking", "installing", "reporting"}
             => detected_managers_map' = detected_managers_map
       /\ (pc = "detecting" /\ pc' # "detecting")
             => DecidedBy(detected_managers_map', 1, ki')
       /\ (pc \in {"checking", "installing"} /\ ki' # ki)
             => DecidedBy(detected_managers_map', ki + 1, ki')]_vars

\* the run processed the second key of the catalog after its manager had
\* become unavailable
C22_Witness ==
    /\ RunOk
    /\ \E i \in DOMAIN log : \E j \in DOMAIN log :
          /\ i < j
          /\ log[i].kind = "probe"
          /\ log[i].out = "spawn_err"
          /\ log[i].k = 1
          /\ log[j].kind = "check"
          /\ log[j].manager = log[i].manager
          /\ log[j].k = 2
    /\ \E m \in ActiveManagers : probe[m] # "ok" /\ MarkedAvailable(m)

\* C23: no step of menu choice "4" and of install_packages, whatever the
\* check and install commands did, changes the persisted catalog document.
C23_CatalogReadOnly ==
    [][op' = "install" => file' = file]_vars

\* a run on a catalog saved before has ended after an install, and the
\* document is still the one that was saved
C23_Witness ==
    /\ RunOk
    /\ Len(newly_installed) + Len(failed_to_install) > 0
    /\ file.t = "object"
    /\ output.ok
    /\ file = output.stdout

\* C24: nothing is retried within a run: a catalog entry has at most one
\* existence check and at most one install in the log of the run, and
\* no command at all is run for an entry after its install failed.
C24_NothingRetried ==
    \A i \in DOMAIN log : \A j \in DOMAIN log :
        (i < j /\ log[i].k = log[j].k /\ log[i].p = log[j].p) =>
            /\ log[i].kind # log[j].kind
            /\ ~InstallFailed(log[i])

\* a run has ended in which an install failed and the loops went on to
\* check and install later entries
C24_Witness ==
    /\ RunOk
    /\ Len(failed_to_install) >= 2
    /\ \E i \in DOMAIN log :
          /\ InstallFailed(log[i])
          /\ \E j \in DOMAIN log : j > i /\ InstallSucceeded(log[j])

\* C27: an install is run for a pair only after the existence check of that
\* pair, earlier in the same run, exited non-zero (returned false): no pair
\* whose check succeeded (returned true) has an install, and no install comes
\* before the check of its pair.
C27_InstallOnlyAfterFalseCheck ==
    \A i \in DOMAIN log :
        log[i].kind = "install" =>
            /\ \E j \in 1..(i - 1) :
                  /\ log[j].kind = "check"
                  /\ log[j].k = log[i].k
                  /\ log[j].p = log[i].p
                  /\ IsPackageInstalled(log[j].manager, log[j].package, log[j].out) = OkBool(FALSE)
            /\ \A j \in DOMAIN log :
                  (log[j].kind = "check" /\ log[j].k = log[i].k /\ log[j].p = log[i].p) =>
                      /\ j < i
                      /\ IsPackageInstalled(log[j].manager, log[j].package, log[j].out) # OkBool(TRUE)

\* a run has ended that checked a pair as installed and ran no install for
\* it, and installed another pair after its check returned false
C27_Witness ==
    /\ RunOk
    /\ \E i \in DOMAIN log :
          /\ CheckedInstalled(log[i])
          /\ ~\E j \in DOMAIN log : log[j].kind = "install" /\ log[j].k = log[i].k /\ log[j].p = log[i].p
    /\ \E i \in DOMAIN log : log[i].kind = "install"

\* the four operations of the package menu
MenuOperations == {"detect", "list", "save", "install"}

\* the step taken last was of an operation of the package menu and ended
\* it with an error
OperationFailed == op \in MenuOperations /\ result \notin {"none", "ok", "not_found"}

\* C25: after an error of a package-menu operation (detect, list, save,
\* install from list) the package menu is waiting for a choice again.  No
\* operation error ends the menu loop or the process: the menu is left only
\* by choice "0" or when the choice itself cannot be read, and the process
\* ends only by the exit choice of the main menu or by the panic of the main
\* menu when it cannot read its choice.
C25_MenuSurvivesErrors ==
    /\ OperationFailed => pc = "menu"
    /\ pc = "main" => op \in {"back", "read_line", "main_other"}
    /\ pc = "exited" => op = "exit"
    /\ pc = "panicked" => op = "main_read_line"
    /\ pc \in {"main", "exited", "panicked"} => op \notin MenuOperations

\* after a listing had failed the menu took choice 4, and the run was ended
\* by a check that could not be spawned; the menu is waiting again
C25_Witness ==
    /\ pc = "menu"
    /\ op = "install"
    /\ result = "spawn error"
    /\ ~output.ok
    /\ log # <<>>

\* the keys of the document list_all_packages returned
ReturnedKeys ==
    IF ret.output.ok /\ ret.output.stdout.t = "object"
    THEN {ret.output.stdout.entries[i].key : i \in DOMAIN ret.output.stdout.entries}
    ELSE {}

\* C26: when list_all_packages succeeds with at least one manager available,
\* the keys of the Catalog are exactly the managers marked available: every
\* available manager has a key, also when nothing was listed for it or its
\* list command exited non-zero.
C26_KeysAreAvailableManagers ==
    (ret.st = "listed" /\ ret.output.ok /\ \E m \in ManagerIds : ret.det[m]) =>
        ReturnedKeys = {m \in ManagerIds : ret.det[m]}

\* two managers are available; the list command of one exited non-zero with
\* nothing to extract, the other listed a package; both are keys
C26_Witness ==
    /\ ret.st = "listed"
    /\ ret.output.ok
    /\ ret.det["apt"]
    /\ ret.det["flatpak"]
    /\ call.outs["apt"] = [spawned |-> TRUE, status |-> "nonzero", names |-> <<>>]
    /\ call.outs["flatpak"].status = "ok"
    /\ call.outs["flatpak"].names # <<>>
    /\ ReturnedKeys = {"apt", "flatpak"}

\* C28: for a catalog key that is unavailable or is none of the seven
\* ManagerIds the Reconciler runs no existence check and no install: every
\* command of the run is of a known manager marked available, the check and
\* the install are never entered with another manager (their unknown-manager
\* arms are not reached), and no pair of an unknown key is in Failed.
C28_NoCommandForSkippedKey ==
    /\ \A i \in DOMAIN log :
          log[i].manager \in ManagerIds /\ MarkedAvailable(log[i].manager)
    /\ pc \in {"checking", "installing"} =>
          /\ manager_name \in ManagerIds
          /\ MarkedAvailable(manager_name)
          /\ IsInstalledCommand(manager_name, package_name) # <<>>
          /\ InstallCommand(manager_name, package_name) # <<>>
    /\ \A x \in NamePositions :
          KeyAt(x) \notin ManagerIds =>
              ~InSeq(Format(NameAt(x), KeyAt(x)), failed_to_install)

\* a run has ended on a catalog that has the same package under an unknown
\* key and, after it, under an available manager; the install of the latter
\* failed and is the only Failed entry
C28_Witness ==
    /\ RunOk
    /\ \E x \in NamePositions : \E y \in NamePositions :
          /\ KeyAt(x) \notin ManagerIds
          /\ MarkedAvailable(KeyAt(y))
          /\ x[1] < y[1]
          /\ NameAt(x) = NameAt(y)
          /\ failed_to_install = <<Format(NameAt(y), KeyAt(y))>>
    /\ \E i \in DOMAIN log : InstallFailed(log[i])

\* C29: every save operation leaves the persisted document equal to the
\* result of its aggregation when the aggregation succeeded, and leaves it
\* as it was when the aggregation failed.
C29_DocumentIsLastAggregation ==
    [][op' = "save" => IF output'.ok THEN file' = output'.stdout ELSE file' = file]_vars

\* C29, amended: a save operation that succeeded leaves the persisted
\* document equal to the result of its aggregation, whole and unmerged; one
\* whose aggregation failed leaves the document as it was; one whose
\* aggregation succeeded and whose write failed leaves the document as it was
\* or cut off (no JSON text, or no text at all).
C29_SuccessfulSaveReplaces ==
    [][op' = "save" =>
          /\ result' = "ok" => (output'.ok /\ file' = output'.stdout)
          /\ ~output'.ok => (result' # "ok" /\ file' = file)
          /\ (output'.ok /\ result' # "ok") => file' \in {file, InvalidText, Unreadable}]_vars

\* on a host whose saved catalog was of flatpak, a save with only apt
\* available succeeded: the document has the key apt and no longer flatpak
C29_Witness ==
    /\ op = "save"
    /\ result = "ok"
    /\ ~MarkedAvailable("flatpak")
    /\ file = output.stdout
    /\ KeysOf(file) = {"apt"}
    /\ KeysOf(SavedBefore) = {"flatpak"}

====
